---------------------------- MODULE Spec2Model ----------------------------
(***************************************************************************)
(* InsightX: rule-based query parser (src/src/nlp_engine.py), context      *)
(* memory (src/src/context_memory.py) and analytics engine                 *)
(* (src/src/analytics_engine.py), with the request pipeline of src/app.py. *)
(*                                                                         *)
(* Python None is modelled by the empty tuple and an Optional value x by   *)
(* the one-element tuple <<x>>.  Strings are TLA+ strings; the substring   *)
(* test `kw in text` is computed position by position.                     *)
(***************************************************************************)
EXTENDS Integers, Sequences, FiniteSets, TLC

VARIABLES
    df,          \* the dataset handed to execute_query
    history,     \* ContextMemory._history
    raw_query,   \* text of the request being processed
    context_hint,\* hint given to parse_query
    query,       \* the AnalyticalQuery in hand (parsed, pushed or executed)
    resolved,    \* value returned by the last ContextMemory.push
    result,      \* outcome of the last execute_query
    _FUZZY,      \* whether rapidfuzz could be imported
    requests,    \* number of queries pushed to the memory so far
    response,    \* outcome of generate_response in the last request, if it was called
    op           \* the operation that produced this state

vars == <<df, history, raw_query, context_hint, query, resolved, result, _FUZZY, requests, response, op>>

None == <<>>
Some(x) == <<x>>

-----------------------------------------------------------------------------
(* Bounds of the model *)

MaxRows == 2
MaxWords == 2
MaxHistory == 2
MaxRequests == 3

MaxGroups == 6

-----------------------------------------------------------------------------
(* Generic helpers *)

Range(s) == {s[i] : i \in DOMAIN s}

Contains(text, kw) ==
    \E i \in 1..(Len(text) - Len(kw) + 1) : SubSeq(text, i, i + Len(kw) - 1) = kw

Hits(text, kws) == Cardinality({i \in DOMAIN kws : Contains(text, kws[i])})

RECURSIVE GCD(_, _)
GCD(a, b) == IF b = 0 THEN a ELSE GCD(b, a % b)

Abs(x) == IF x < 0 THEN -x ELSE x

\* Python truthiness of an Optional string.
Truthy(opt) == opt # None /\ opt[1] # ""

OrEmpty(opt) == IF Truthy(opt) THEN opt[1] ELSE ""

-----------------------------------------------------------------------------
(* src/src/nlp_engine.py: AnalyticalQuery *)

\* Confidences are in hundredths (0.85 is 85).  confidence_reasoning is
\* the record of the parts the source joins into one string.
AnalyticalQuery(intent, metric, group_by, filters, time_window, sort_ascending, top_n, confidence, reasoning, raw, followup, compare) ==
    [intent |-> intent, metric |-> metric, group_by |-> group_by,
     filters |-> filters, time_window |-> time_window,
     sort_ascending |-> sort_ascending, top_n |-> top_n,
     confidence |-> confidence, confidence_reasoning |-> reasoning,
     raw_query |-> raw, followup |-> followup, compare |-> compare]

DefaultQuery ==
    AnalyticalQuery("single", "count", None, <<>>, None, FALSE, 10, 0, <<>>, "", FALSE, <<>>)

to_json(q) == [json |-> q]

-----------------------------------------------------------------------------
(* src/src/nlp_engine.py: vocabulary and keyword tables *)

STATES ==
    <<"Andhra Pradesh", "Delhi", "Gujarat", "Karnataka", "Maharashtra",
      "Rajasthan", "Tamil Nadu", "Telangana", "Uttar Pradesh", "West Bengal">>
BANKS == <<"Axis", "HDFC", "ICICI", "IndusInd", "Kotak", "PNB", "SBI", "Yes Bank">>
CATEGORIES ==
    <<"Education", "Entertainment", "Food", "Fuel", "Grocery",
      "Healthcare", "Other", "Shopping", "Transport", "Utilities">>
AGE_GROUPS == <<"18-25", "26-35", "36-45", "46-55", "56+">>
DEVICES == <<"Android", "iOS", "Web">>
NETWORKS == <<"3G", "4G", "5G", "WiFi">>
TXN_TYPES == <<"P2P", "P2M", "Bill Payment", "Recharge">>

\* Each table is the sequence of its (key, keywords) entries, in the
\* source's dict order.
DIM_KEYWORDS ==
    << <<"device_type", <<"device", "android", "ios", "web", "mobile", "browser", "platform">> >>,
       <<"network_type", <<"network", "5g", "4g", "3g", "wifi", "wi-fi", "connectivity", "connection">> >>,
       <<"sender_state", <<"state", "region", "city", "location", "geography">> >>,
       <<"sender_bank", <<"bank", "lender", "provider", "financial institution">> >>,
       <<"merchant_category", <<"category", "sector", "merchant", "industry", "type of purchase", "spend category">> >>,
       <<"sender_age_group", <<"age", "age group", "demographic", "generation", "young", "senior", "millennial">> >>,
       <<"day_of_week", <<"day", "weekday", "weekend", "monday", "tuesday", "wednesday", "thursday", "friday", "saturday", "sunday">> >>,
       <<"hour_of_day", <<"hour", "time", "peak hour", "morning", "afternoon", "evening", "night", "midnight", "clock">> >>,
       <<"transaction_type", <<"transaction type", "p2p", "p2m", "bill payment", "recharge", "mode", "payment type">> >>,
       <<"month", <<"month", "monthly", "january", "february", "march", "april", "may", "june", "july", "august", "september", "october", "november", "december">> >> >>

METRIC_KEYWORDS ==
    << <<"fraud_rate", <<"fraud", "fraudulent", "scam", "flag", "flagged", "suspicious", "risk">> >>,
       <<"failure_rate", <<"fail", "failure", "failed", "decline", "declined", "unstable", "unsuccessful", "error", "drop", "dropout", "bounce">> >>,
       <<"avg_amount", <<"average", "avg", "mean", "typical", "usual", "standard amount", "transaction size">> >>,
       <<"count", <<"count", "volume", "number", "how many", "total transaction", "frequency", "most used", "popular", "busiest">> >>,
       <<"total_volume", <<"total amount", "total value", "revenue", "sum", "aggregate", "cumulative">> >> >>

INTENT_KEYWORDS ==
    << <<"trend", <<"trend", "over time", "monthly", "weekly", "daily", "by month", "by week", "by day", "by hour", "time series", "timeline", "pattern", "seasonal", "growth", "decline", "change">> >>,
       <<"ranking", <<"top", "bottom", "best", "worst", "highest", "lowest", "rank", "ranking", "most", "least", "which.*most", "which.*least", "who has", "who is", "maximum", "minimum">> >>,
       <<"comparison", <<"compare", "vs", "versus", "against", "difference between", "contrast", "between", "across", "each", "per", "by device", "by bank", "by state", "by category">> >>,
       <<"anomaly", <<"anomal", "outlier", "unusual", "spike", "abnormal", "sudden", "unexpected">> >>,
       <<"single", <<"what is", "what's", "show", "tell me", "give me", "display", "overall", "total", "summary", "overview">> >> >>

ASCENDING_KW == <<"lowest", "least", "bottom", "worst", "minimum", "min">>
DESCENDING_KW == <<"highest", "most", "top", "best", "maximum", "max">>

TIME_KEYWORDS ==
    << <<"morning", Some(<<6, 11>>)>>, <<"afternoon", Some(<<12, 16>>)>>,
       <<"evening", Some(<<17, 20>>)>>, <<"night", Some(<<21, 23>>)>>,
       <<"midnight", Some(<<0, 5>>)>>, <<"weekend", None>>, <<"weekday", None>> >>

MONTH_MAP ==
    << <<"jan", 1>>, <<"feb", 2>>, <<"mar", 3>>, <<"apr", 4>>, <<"may", 5>>, <<"jun", 6>>,
       <<"jul", 7>>, <<"aug", 8>>, <<"sep", 9>>, <<"oct", 10>>, <<"nov", 11>>, <<"dec", 12>>,
       <<"january", 1>>, <<"february", 2>>, <<"march", 3>>, <<"april", 4>>,
       <<"june", 6>>, <<"july", 7>>, <<"august", 8>>, <<"september", 9>>,
       <<"october", 10>>, <<"november", 11>>, <<"december", 12>> >>

-----------------------------------------------------------------------------
(* Characters and _tok *)

UpperChars == "ABCDEFGHIJKLMNOPQRSTUVWXYZ"
LowerChars == "abcdefghijklmnopqrstuvwxyz"
DigitChars == "0123456789"

CharAt(text, i) == SubSeq(text, i, i)

CharsOf(text) == {CharAt(text, i) : i \in 1..Len(text)}

WordChars == CharsOf(UpperChars) \cup CharsOf(LowerChars) \cup CharsOf(DigitChars) \cup {"_"}

LowerMap == [ch \in CharsOf(UpperChars) |-> CharAt(LowerChars, CHOOSE i \in 1..Len(UpperChars) : CharAt(UpperChars, i) = ch)]

IsWordChar(ch) == ch \in WordChars
IsSpace(ch) == ch = " "
IsDigit(ch) == ch \in CharsOf(DigitChars)

LowerChar(ch) == IF ch \in DOMAIN LowerMap THEN LowerMap[ch] ELSE ch

RECURSIVE lower(_)
lower(text) == IF text = "" THEN "" ELSE LowerChar(CharAt(text, 1)) \o lower(SubSeq(text, 2, Len(text)))

\* re.sub(r"[^\w\s\-\+]", " ", ...): every other character becomes a space.
RECURSIVE SubPunct(_)
SubPunct(text) ==
    IF text = "" THEN ""
    ELSE LET ch == CharAt(text, 1)
         IN (IF IsWordChar(ch) \/ IsSpace(ch) \/ ch = "-" \/ ch = "+" THEN ch ELSE " ") \o SubPunct(SubSeq(text, 2, Len(text)))

RECURSIVE strip(_)
strip(text) ==
    IF text = "" THEN ""
    ELSE IF IsSpace(CharAt(text, 1)) THEN strip(SubSeq(text, 2, Len(text)))
    ELSE IF IsSpace(CharAt(text, Len(text))) THEN strip(SubSeq(text, 1, Len(text) - 1))
    ELSE text

_tok(text) == strip(SubPunct(lower(text)))

_any_kw(text, kws) == \E i \in DOMAIN kws : Contains(text, kws[i])

-----------------------------------------------------------------------------
(* _detect_intent, _detect_metric, _detect_groupby *)

\* max(scores, key=scores.get): the first key, in table order, with the
\* highest positive number of keyword hits; 0 when no keyword hits.
ArgMax(score) ==
    CHOOSE i \in DOMAIN score : (\A j \in DOMAIN score : score[j] <= score[i]) /\ (\A j \in 1..(i - 1) : score[j] < score[i])

BestOf(score) ==
    IF \A i \in DOMAIN score : score[i] = 0 THEN [index |-> 0, hits |-> 0]
    ELSE [index |-> ArgMax(score), hits |-> score[ArgMax(score)]]

BestEntry(text, table) == BestOf([i \in DOMAIN table |-> Hits(text, table[i][2])])

Min(a, b) == IF a < b THEN a ELSE b

\* The (value, confidence) pair of a best entry; `default` when no keyword hits.
Scored(table, b, default, base) ==
    IF b.index = 0 THEN default ELSE <<table[b.index][1], Min(95, base + b.hits * 10)>>

\* _detect_intent whose fallback is the intent "summary".
_detect_intent_SummaryDefault(text) == Scored(INTENT_KEYWORDS, BestEntry(text, INTENT_KEYWORDS), <<"summary", 50>>, 60)

_detect_intent(text) == Scored(INTENT_KEYWORDS, BestEntry(text, INTENT_KEYWORDS), <<"single", 50>>, 60)

_detect_metric(text) == Scored(METRIC_KEYWORDS, BestEntry(text, METRIC_KEYWORDS), <<"count", 40>>, 65)

SomeFirst(pair) == <<Some(pair[1]), pair[2]>>

_detect_groupby(text) ==
    IF BestEntry(text, DIM_KEYWORDS).index = 0 THEN <<None, 0>>
    ELSE SomeFirst(Scored(DIM_KEYWORDS, BestEntry(text, DIM_KEYWORDS), <<"", 0>>, 60))

-----------------------------------------------------------------------------
(* _fuzzy_resolve: rapidfuzz's extractOne with fuzz.token_sort_ratio *)

Max(a, b) == IF a < b THEN b ELSE a

RECURSIVE LcsRow(_, _, _, _)
LcsRow(prev, ch, b, cur) ==
    IF Len(cur) = Len(b) + 1 THEN cur
    ELSE LET j == Len(cur)
         IN LcsRow(prev, ch, b, Append(cur, IF CharAt(b, j) = ch THEN prev[j] + 1 ELSE Max(prev[j + 1], cur[j])))

RECURSIVE LcsFrom(_, _, _, _)
LcsFrom(a, b, i, prev) ==
    IF i > Len(a) THEN prev[Len(b) + 1]
    ELSE LcsFrom(a, b, i + 1, LcsRow(prev, CharAt(a, i), b, <<0>>))

\* Length of the longest common subsequence of two strings.
LCS(a, b) == LcsFrom(a, b, 1, [j \in 1..(Len(b) + 1) |-> 0])

\* The lower-cased state names with their words sorted, as token_sort_ratio
\* compares them.
SortedStateTokens ==
    <<"andhra pradesh", "delhi", "gujarat", "karnataka", "maharashtra",
      "rajasthan", "nadu tamil", "telangana", "pradesh uttar", "bengal west">>

\* ratio = 100 * 2 * LCS / (len1 + len2), kept as the pair <<2*LCS, len1+len2>>.
\* A candidate too short or too long to reach the threshold scores 0
\* without its LCS being computed.
token_sort_ratio(word, cand, threshold) ==
    IF 100 * 2 * Min(Len(word), Len(cand)) < threshold * (Len(word) + Len(cand)) THEN <<0, 1>>
    ELSE <<2 * LCS(word, cand), Len(word) + Len(cand)>>

RatioLess(x, y) == x[1] * y[2] < y[1] * x[2]

\* extractOne: the first candidate with the highest ratio, if it reaches
\* the threshold; 0 otherwise.
extractOne(score, threshold) ==
    IF \E i \in DOMAIN score :
          /\ \A j \in DOMAIN score : ~RatioLess(score[i], score[j])
          /\ 100 * score[i][1] >= threshold * score[i][2]
    THEN CHOOSE i \in DOMAIN score : (\A j \in DOMAIN score : ~RatioLess(score[i], score[j])) /\ (\A j \in 1..(i - 1) : RatioLess(score[j], score[i]))
    ELSE 0

_fuzzy_resolve(fuzzy, word, threshold) ==
    IF ~fuzzy \/ word = "" THEN 0
    ELSE extractOne([i \in DOMAIN SortedStateTokens |-> token_sort_ratio(word, SortedStateTokens[i], threshold)], threshold)

\* The least member of a set of positions; 0 for the empty set.
First(S) == IF S = {} THEN 0 ELSE CHOOSE i \in S : \A j \in S : i <= j

\* tok.split(): the maximal runs of non-space characters.
RECURSIVE split(_)
RECURSIVE SplitAt(_, _)
SplitAt(text, e) ==
    IF e = 0 THEN <<text>>
    ELSE <<SubSeq(text, 1, e - 1)>> \o split(SubSeq(text, e, Len(text)))

split(text) ==
    IF text = "" THEN <<>>
    ELSE IF IsSpace(CharAt(text, 1)) THEN split(SubSeq(text, 2, Len(text)))
    ELSE SplitAt(text, First({i \in 1..Len(text) : IsSpace(CharAt(text, i))}))

-----------------------------------------------------------------------------
(* _detect_filters *)

Put(f, k, v) == [x \in DOMAIN f \cup {k} |-> IF x = k THEN v ELSE f[x]]

Pop(f, k) == [x \in DOMAIN f \ {k} |-> f[x]]

\* s.lower() of every entry of a vocabulary.
LowerAll(vocab) == [i \in DOMAIN vocab |-> lower(vocab[i])]

LowerVocab ==
    [v \in {STATES, BANKS, CATEGORIES, DEVICES, NETWORKS, TXN_TYPES} |-> LowerAll(v)]

\* Index of the first vocabulary entry whose lower-cased name is in tok; 0 if none.
FirstIn(tok, vocab) == First({i \in DOMAIN vocab : Contains(tok, LowerVocab[vocab][i])})

\* filters with filters[key] set to the entry at `index`, if there is one.
PutEntry(filters, key, vocab, index) ==
    IF index = 0 THEN filters ELSE Put(filters, key, vocab[index])

VocabFilter(filters, key, tok, vocab) == PutEntry(filters, key, vocab, FirstIn(tok, vocab))

\* The state of the first word of tok that resolves to one; 0 if none does.
FuzzyState(resolved_words) ==
    IF First({i \in DOMAIN resolved_words : resolved_words[i] # 0}) = 0 THEN 0
    ELSE resolved_words[First({i \in DOMAIN resolved_words : resolved_words[i] # 0})]

FuzzyStates(words, fuzzy) == FuzzyState([i \in DOMAIN words |-> _fuzzy_resolve(fuzzy, words[i], 80)])

StateFilter(filters, tok, fuzzy) ==
    IF FirstIn(tok, STATES) # 0 THEN Put(filters, "sender_state", STATES[FirstIn(tok, STATES)])
    ELSE IF ~fuzzy THEN filters
    ELSE PutEntry(filters, "sender_state", STATES, FuzzyStates(split(tok), fuzzy))

\* \b(18-25|26-35|36-45|46-55|56\+)\b on the raw text: a word boundary
\* before the first digit, and one after the last character (after "+",
\* that asks for a word character to follow).
AgeMatchAt(raw, i, g) ==
    /\ i + Len(g) - 1 <= Len(raw)
    /\ SubSeq(raw, i, i + Len(g) - 1) = g
    /\ (i = 1 \/ ~IsWordChar(CharAt(raw, i - 1)))
    /\ LET last == CharAt(g, Len(g))
           after == i + Len(g)
       IN IF IsWordChar(last) THEN after > Len(raw) \/ ~IsWordChar(CharAt(raw, after))
          ELSE after <= Len(raw) /\ IsWordChar(CharAt(raw, after))

\* The alternative matched at position i (the first that matches there).
AgeGroupAt(raw, i) ==
    IF i = 0 THEN None
    ELSE Some(AGE_GROUPS[First({k \in DOMAIN AGE_GROUPS : AgeMatchAt(raw, i, AGE_GROUPS[k])})])

AgeSearch(raw) ==
    AgeGroupAt(raw, First({i \in 1..Len(raw) : \E k \in DOMAIN AGE_GROUPS : AgeMatchAt(raw, i, AGE_GROUPS[k])}))

AgeFilter(filters, raw, tok) ==
    IF AgeSearch(raw) # None THEN Put(filters, "sender_age_group", AgeSearch(raw)[1])
    ELSE IF Contains(tok, "young") \/ Contains(tok, "youth") THEN Put(filters, "sender_age_group", "18-25")
    ELSE IF Contains(tok, "senior") \/ Contains(tok, "elder") \/ Contains(tok, "old") THEN Put(filters, "sender_age_group", "56+")
    ELSE IF Contains(tok, "millennial") THEN Put(filters, "sender_age_group", "26-35")
    ELSE filters

TxnFilter(filters, tok) ==
    IF Contains(tok, "p2p") THEN Put(filters, "transaction_type", "P2P")
    ELSE IF Contains(tok, "p2m") THEN Put(filters, "transaction_type", "P2M")
    ELSE IF Contains(tok, "bill payment") \/ Contains(tok, "bill pay") THEN Put(filters, "transaction_type", "Bill Payment")
    ELSE IF Contains(tok, "recharge") THEN Put(filters, "transaction_type", "Recharge")
    ELSE filters

WeekendFilter(filters, tok) ==
    IF Contains(tok, "weekend") THEN Put(filters, "is_weekend", 1)
    ELSE IF Contains(tok, "weekday") THEN Put(filters, "is_weekend", 0)
    ELSE filters

MonthEntry(filters, index) ==
    IF index = 0 THEN filters ELSE Put(filters, "month_num", MONTH_MAP[index][2])

MonthFilter(filters, tok) == MonthEntry(filters, First({i \in DOMAIN MONTH_MAP : Contains(tok, MONTH_MAP[i][1])}))

_detect_filters(raw, tok, fuzzy) ==
    LET f1 == StateFilter(<<>>, tok, fuzzy)
        f2 == VocabFilter(f1, "sender_bank", tok, BANKS)
        f3 == VocabFilter(f2, "merchant_category", tok, CATEGORIES)
        f4 == VocabFilter(f3, "device_type", tok, DEVICES)
        f5 == VocabFilter(f4, "network_type", tok, NETWORKS)
        f6 == AgeFilter(f5, raw, tok)
        f7 == TxnFilter(f6, tok)
        f8 == WeekendFilter(f7, tok)
    IN MonthFilter(f8, tok)

-----------------------------------------------------------------------------
(* _detect_time_window, _detect_sort, _extract_top_n, _detect_compare_values, _is_followup *)

TimeWindow(index) ==
    IF index = 0 THEN None
    ELSE IF TIME_KEYWORDS[index][2] # None
         THEN Some([type |-> "hour_range", label |-> TIME_KEYWORDS[index][1],
                    min |-> TIME_KEYWORDS[index][2][1][1], max |-> TIME_KEYWORDS[index][2][1][2]])
         ELSE Some([type |-> TIME_KEYWORDS[index][1]])

_detect_time_window(tok) == TimeWindow(First({i \in DOMAIN TIME_KEYWORDS : Contains(tok, TIME_KEYWORDS[i][1])}))

_detect_sort(tok) == _any_kw(tok, ASCENDING_KW)

RECURSIVE int(_)
int(digits) ==
    IF digits = "" THEN 0
    ELSE 10 * int(SubSeq(digits, 1, Len(digits) - 1)) + ((CHOOSE i \in 1..10 : CharAt(DigitChars, i) = CharAt(digits, Len(digits))) - 1)

\* End of the run of spaces (of digits) that starts at i; i - 1 when empty.
RECURSIVE SpaceRunEnd(_, _)
SpaceRunEnd(text, i) == IF i <= Len(text) /\ IsSpace(CharAt(text, i)) THEN SpaceRunEnd(text, i + 1) ELSE i - 1

RECURSIVE DigitRunEnd(_, _)
DigitRunEnd(text, i) == IF i <= Len(text) /\ IsDigit(CharAt(text, i)) THEN DigitRunEnd(text, i + 1) ELSE i - 1

\* A match of \b(?:top|bottom|best|worst)\s+(\d+)\b starting at i: the
\* digits it captures, or "" when there is no match at i.
TopNMatchAt(text, i, kw) ==
    IF ~(/\ i + Len(kw) - 1 <= Len(text)
         /\ SubSeq(text, i, i + Len(kw) - 1) = kw
         /\ (i = 1 \/ ~IsWordChar(CharAt(text, i - 1))))
    THEN ""
    ELSE LET ws == SpaceRunEnd(text, i + Len(kw))
             de == DigitRunEnd(text, ws + 1)
         IN IF ws >= i + Len(kw) /\ de >= ws + 1 /\ (de = Len(text) \/ ~IsWordChar(CharAt(text, de + 1)))
            THEN SubSeq(text, ws + 1, de)
            ELSE ""

TopNKeywords == <<"top", "bottom", "best", "worst">>

\* The number captured by the match at position i; 10 when nothing matched.
TopNAt(text, i) ==
    IF i = 0 THEN 10
    ELSE int(TopNMatchAt(text, i, TopNKeywords[CHOOSE x \in DOMAIN TopNKeywords : TopNMatchAt(text, i, TopNKeywords[x]) # ""]))

_extract_top_n(text) ==
    TopNAt(text, First({i \in 1..Len(text) : \E k \in DOMAIN TopNKeywords : TopNMatchAt(text, i, TopNKeywords[k]) # ""}))

\* [v for v in vocab if v.lower() in tok]
Entries(vocab, idx) == [j \in DOMAIN idx |-> vocab[idx[j]]]

VocabHits(tok, vocab) ==
    Entries(vocab, SelectSeq([i \in DOMAIN vocab |-> i], LAMBDA i : Contains(tok, LowerVocab[vocab][i])))

_detect_compare_values(tok) ==
    IF Len(VocabHits(tok, DEVICES)) >= 2 THEN VocabHits(tok, DEVICES)
    ELSE IF Len(VocabHits(tok, BANKS)) >= 2 THEN VocabHits(tok, BANKS)
    ELSE VocabHits(tok, NETWORKS)

FollowupSignals ==
    <<"what about", "only ", "and in ", "for ", "same but", "now for",
      "show me only", "just ", "in that case", "how about", "what if">>

_is_followup(tok) == _any_kw(tok, FollowupSignals)

-----------------------------------------------------------------------------
(* parse_query *)

\* The promotion with the single-value filter of the promoted dimension left.
Promotion_KeepFilter(bank_hits, device_hits, net_hits, txn_hits, group_by, group_conf, compare, filters) ==
    IF Len(bank_hits) >= 2 THEN [group_by |-> Some("sender_bank"), group_conf |-> 95, compare |-> bank_hits, filters |-> filters]
    ELSE IF Len(device_hits) >= 2 THEN [group_by |-> Some("device_type"), group_conf |-> 95, compare |-> device_hits, filters |-> filters]
    ELSE IF Len(net_hits) >= 2 THEN [group_by |-> Some("network_type"), group_conf |-> 95, compare |-> net_hits, filters |-> filters]
    ELSE IF Len(txn_hits) >= 2 THEN [group_by |-> Some("transaction_type"), group_conf |-> 95, compare |-> txn_hits, filters |-> filters]
    ELSE [group_by |-> group_by, group_conf |-> group_conf, compare |-> compare, filters |-> filters]

\* Lines 386-408: the promotion chain.  Gives group_by, group_conf, compare
\* and filters after it.
Promotion(bank_hits, device_hits, net_hits, txn_hits, group_by, group_conf, compare, filters) ==
    IF Len(bank_hits) >= 2 THEN [group_by |-> Some("sender_bank"), group_conf |-> 95, compare |-> bank_hits, filters |-> Pop(filters, "sender_bank")]
    ELSE IF Len(device_hits) >= 2 THEN [group_by |-> Some("device_type"), group_conf |-> 95, compare |-> device_hits, filters |-> Pop(filters, "device_type")]
    ELSE IF Len(net_hits) >= 2 THEN [group_by |-> Some("network_type"), group_conf |-> 95, compare |-> net_hits, filters |-> Pop(filters, "network_type")]
    ELSE IF Len(txn_hits) >= 2 THEN [group_by |-> Some("transaction_type"), group_conf |-> 95, compare |-> txn_hits, filters |-> Pop(filters, "transaction_type")]
    ELSE [group_by |-> group_by, group_conf |-> group_conf, compare |-> compare, filters |-> filters]

\* Lines 412-414: the single-network rule.
SingleNetwork(net_hits, p) ==
    IF Len(net_hits) = 1 /\ ~Truthy(p.group_by)
    THEN [p EXCEPT !.group_by = Some("network_type"), !.group_conf = 85]
    ELSE p

\* Lines 381-414: comparison promotion, then the single-network rule.
Promote(tok, group_by, group_conf, compare, filters) ==
    SingleNetwork(VocabHits(tok, NETWORKS),
                  Promotion(VocabHits(tok, BANKS), VocabHits(tok, DEVICES), VocabHits(tok, NETWORKS), VocabHits(tok, TXN_TYPES),
                            group_by, group_conf, compare, filters))

RankingOverrideKw == <<"top", "bottom", "rank", "highest", "lowest", "best", "worst", "which", "who has", "most", "least">>

\* The overrides with the ranking rule applied after the comparison rules.
OverrideIntent_RankingLast(tok, intent0, group_by, compare) ==
    LET a == IF group_by \in {Some("month"), Some("day_of_week"), Some("hour_of_day")} /\ intent0 = "single" THEN "trend" ELSE intent0
        b == IF Truthy(group_by) /\ a = "single" THEN "comparison" ELSE a
        d == IF Contains(tok, "vs") \/ Contains(tok, "versus") \/ Contains(tok, "compare") THEN "comparison" ELSE b
        e == IF compare # <<>> /\ Len(compare) >= 2 THEN "comparison" ELSE d
    IN IF _any_kw(tok, RankingOverrideKw) /\ e # "trend" THEN "ranking" ELSE e

\* Lines 417-428: the intent overrides, in the source's order.
OverrideIntent(tok, intent0, group_by, compare) ==
    LET a == IF group_by \in {Some("month"), Some("day_of_week"), Some("hour_of_day")} /\ intent0 = "single" THEN "trend" ELSE intent0
        b == IF Truthy(group_by) /\ a = "single" THEN "comparison" ELSE a
        c == IF _any_kw(tok, RankingOverrideKw) /\ b # "trend" THEN "ranking" ELSE b
        d == IF Contains(tok, "vs") \/ Contains(tok, "versus") \/ Contains(tok, "compare") THEN "comparison" ELSE c
    IN IF compare # <<>> /\ Len(compare) >= 2 THEN "comparison" ELSE d

\* round((a + b + c) / 3, 2), in hundredths.
Confidence(intent_conf, metric_conf, group_conf) == (intent_conf + metric_conf + group_conf + 1) \div 3

\* Lines 434-446: what the reasoning string is formatted from.
Reasoning(intent, i, m, p, time_window, is_followup) ==
    [intent |-> intent, intent_conf |-> i[2], metric |-> m[1], metric_conf |-> m[2],
     group_by |-> p.group_by, group_conf |-> IF Truthy(p.group_by) THEN Some(p.group_conf) ELSE None,
     filters |-> p.filters, compare |-> p.compare, time_window |-> time_window,
     followup |-> is_followup]

\* Lines 416-461, from the detected intent i, metric m and promotion p.
Assemble(raw, tok, i, m, p, time_window, is_followup) ==
    AnalyticalQuery(OverrideIntent(tok, i[1], p.group_by, p.compare), m[1], p.group_by, p.filters, time_window,
                    _detect_sort(tok), _extract_top_n(tok),
                    Confidence(i[2], m[2], IF Truthy(p.group_by) THEN p.group_conf ELSE 50),
                    Reasoning(OverrideIntent(tok, i[1], p.group_by, p.compare), i, m, p, time_window, is_followup),
                    raw, is_followup, p.compare)

\* Mutant: the follow-up flag depends on what the hint holds (a numbered
\* history entry), not on the hint being non-empty.
ParseTok_HintContent(raw, tok, g, hint, fuzzy) ==
    Assemble(raw, tok, _detect_intent(tok), _detect_metric(tok),
             Promote(tok, g[1], g[2], _detect_compare_values(tok), _detect_filters(raw, tok, fuzzy)),
             _detect_time_window(tok), _is_followup(tok) /\ Contains(hint, "[1]"))

\* Lines 364-414, on the normalized text.
ParseTok(raw, tok, g, hint, fuzzy) ==
    Assemble(raw, tok, _detect_intent(tok), _detect_metric(tok),
             Promote(tok, g[1], g[2], _detect_compare_values(tok), _detect_filters(raw, tok, fuzzy)),
             _detect_time_window(tok), _is_followup(tok) /\ hint # "")

parse_query(raw, hint, fuzzy) == ParseTok(raw, _tok(raw), _detect_groupby(_tok(raw)), hint, fuzzy)

-----------------------------------------------------------------------------
(* src/src/context_memory.py: ContextMemory *)

\* ContextMemory() as src/app.py constructs it: the default cap, bounded.
_max == MaxHistory

\* dict.update: every key of `other` is set, the other keys are kept.
update(filters, other) ==
    [k \in DOMAIN filters \cup DOMAIN other |-> IF k \in DOMAIN other THEN other[k] ELSE filters[k]]

\* The merge with the follow-up's compare-set added to the previous one.
_merge_ExtendCompare(prev, followup) ==
    LET m0 == [prev EXCEPT !.raw_query = followup.raw_query, !.followup = TRUE]
        m1 == IF followup.intent \notin {"single", "summary"} THEN [m0 EXCEPT !.intent = followup.intent] ELSE m0
        m2 == IF followup.metric # "count" THEN [m1 EXCEPT !.metric = followup.metric] ELSE m1
        m3 == IF followup.group_by # None THEN [m2 EXCEPT !.group_by = followup.group_by] ELSE m2
        m4 == IF followup.filters # <<>> THEN [m3 EXCEPT !.filters = update(m3.filters, followup.filters)] ELSE m3
        m5 == IF followup.compare # <<>> THEN [m4 EXCEPT !.compare = m4.compare \o followup.compare] ELSE m4
        m6 == IF followup.time_window # None THEN [m5 EXCEPT !.time_window = followup.time_window] ELSE m5
    IN IF followup.top_n # 10 THEN [m6 EXCEPT !.top_n = followup.top_n] ELSE m6

\* The merge that keeps the previous metric and group-by whatever the follow-up has.
_merge_KeepMetric(prev, followup) ==
    LET m0 == [prev EXCEPT !.raw_query = followup.raw_query, !.followup = TRUE]
        m1 == IF followup.intent \notin {"single", "summary"} THEN [m0 EXCEPT !.intent = followup.intent] ELSE m0
        m4 == IF followup.filters # <<>> THEN [m1 EXCEPT !.filters = update(m1.filters, followup.filters)] ELSE m1
        m5 == IF followup.compare # <<>> THEN [m4 EXCEPT !.compare = followup.compare] ELSE m4
        m6 == IF followup.time_window # None THEN [m5 EXCEPT !.time_window = followup.time_window] ELSE m5
    IN IF followup.top_n # 10 THEN [m6 EXCEPT !.top_n = followup.top_n] ELSE m6

\* The merge with the follow-up's filters replacing the previous ones.
_merge_ReplaceFilters(prev, followup) ==
    LET m0 == [prev EXCEPT !.raw_query = followup.raw_query, !.followup = TRUE]
        m1 == IF followup.intent \notin {"single", "summary"} THEN [m0 EXCEPT !.intent = followup.intent] ELSE m0
        m2 == IF followup.metric # "count" THEN [m1 EXCEPT !.metric = followup.metric] ELSE m1
        m3 == IF followup.group_by # None THEN [m2 EXCEPT !.group_by = followup.group_by] ELSE m2
        m4 == IF followup.filters # <<>> THEN [m3 EXCEPT !.filters = followup.filters] ELSE m3
        m5 == IF followup.compare # <<>> THEN [m4 EXCEPT !.compare = followup.compare] ELSE m4
        m6 == IF followup.time_window # None THEN [m5 EXCEPT !.time_window = followup.time_window] ELSE m5
    IN IF followup.top_n # 10 THEN [m6 EXCEPT !.top_n = followup.top_n] ELSE m6

\* The merge with the follow-up's intent always replacing the previous one.
_merge_TakeIntent(prev, followup) ==
    LET m0 == [prev EXCEPT !.raw_query = followup.raw_query, !.followup = TRUE]
        m1 == [m0 EXCEPT !.intent = followup.intent]
        m2 == IF followup.metric # "count" THEN [m1 EXCEPT !.metric = followup.metric] ELSE m1
        m3 == IF followup.group_by # None THEN [m2 EXCEPT !.group_by = followup.group_by] ELSE m2
        m4 == IF followup.filters # <<>> THEN [m3 EXCEPT !.filters = update(m3.filters, followup.filters)] ELSE m3
        m5 == IF followup.compare # <<>> THEN [m4 EXCEPT !.compare = followup.compare] ELSE m4
        m6 == IF followup.time_window # None THEN [m5 EXCEPT !.time_window = followup.time_window] ELSE m5
    IN IF followup.top_n # 10 THEN [m6 EXCEPT !.top_n = followup.top_n] ELSE m6

\* A copy of prev with the follow-up's text, then field by field what the
\* follow-up overrides.
_merge(prev, followup) ==
    LET m0 == [prev EXCEPT !.raw_query = followup.raw_query, !.followup = TRUE]
        m1 == IF followup.intent \notin {"single", "summary"} THEN [m0 EXCEPT !.intent = followup.intent] ELSE m0
        m2 == IF followup.metric # "count" THEN [m1 EXCEPT !.metric = followup.metric] ELSE m1
        m3 == IF followup.group_by # None THEN [m2 EXCEPT !.group_by = followup.group_by] ELSE m2
        m4 == IF followup.filters # <<>> THEN [m3 EXCEPT !.filters = update(m3.filters, followup.filters)] ELSE m3
        m5 == IF followup.compare # <<>> THEN [m4 EXCEPT !.compare = followup.compare] ELSE m4
        m6 == IF followup.time_window # None THEN [m5 EXCEPT !.time_window = followup.time_window] ELSE m5
    IN IF followup.top_n # 10 THEN [m6 EXCEPT !.top_n = followup.top_n] ELSE m6

\* push without the eviction of the oldest entry.
push_NoEviction(h, ctx) ==
    LET r == IF ctx.followup /\ h # <<>> THEN _merge(h[Len(h)], ctx) ELSE ctx
    IN [history |-> Append(h, r), resolved |-> r]

\* push that stores the incoming query and returns the resolved one.
push_StoresIncoming(h, ctx) ==
    LET r == IF ctx.followup /\ h # <<>> THEN _merge(h[Len(h)], ctx) ELSE ctx
        appended == Append(h, ctx)
    IN [history |-> IF Len(appended) > _max THEN Tail(appended) ELSE appended,
        resolved |-> r]

\* push whose merge works on the last entry itself instead of a copy: the
\* stored entry and the appended one are the same, merged, object.
push_MergeInPlace(h, ctx) ==
    LET r == IF ctx.followup /\ h # <<>> THEN _merge(h[Len(h)], ctx) ELSE ctx
        appended == IF ctx.followup /\ h # <<>> THEN Append([h EXCEPT ![Len(h)] = r], r) ELSE Append(h, r)
    IN [history |-> IF Len(appended) > _max THEN Tail(appended) ELSE appended,
        resolved |-> r]

\* push: the history after the call and the value returned.
push(h, ctx) ==
    LET r == IF ctx.followup /\ h # <<>> THEN _merge(h[Len(h)], ctx) ELSE ctx
        appended == Append(h, r)
    IN [history |-> IF Len(appended) > _max THEN Tail(appended) ELSE appended,
        resolved |-> r]

last(h) == IF h # <<>> THEN Some(h[Len(h)]) ELSE None

clear(h) == <<>>

\* sep.join(parts)
RECURSIVE join(_, _)
join(sep, parts) ==
    IF parts = <<>> THEN ""
    ELSE IF Len(parts) = 1 THEN parts[1]
    ELSE parts[1] \o sep \o join(sep, Tail(parts))

\* repr of a list of strings.
ListRepr(list) == "[" \o join(", ", [i \in DOMAIN list |-> "'" \o list[i] \o "'"]) \o "]"

\* The filter columns in the order _detect_filters sets them.
FilterKeys ==
    <<"sender_state", "sender_bank", "merchant_category", "device_type", "network_type",
      "sender_age_group", "transaction_type", "is_weekend", "month_num">>

\* The filters part of the summary, with each entry rendered by its column.
FiltersRepr(filters) == "{" \o join(", ", SelectSeq(FilterKeys, LAMBDA k : k \in DOMAIN filters)) \o "}"

_query_summary(ctx) ==
    join(" | ",
         <<"metric=" \o ctx.metric, "intent=" \o ctx.intent>>
         \o (IF Truthy(ctx.group_by) THEN <<"group_by=" \o ctx.group_by[1]>> ELSE <<>>)
         \o (IF ctx.filters # <<>> THEN <<"filters=" \o FiltersRepr(ctx.filters)>> ELSE <<>>)
         \o (IF ctx.compare # <<>> THEN <<"compare=" \o ListRepr(ctx.compare)>> ELSE <<>>))

\* self._history[-n:]
Recent(h, n) == SubSeq(h, Max(1, Len(h) - n + 1), Len(h))

\* The two lines of entry i of the recent queries.
ContextLines(recent, i) ==
    <<"  [" \o CharAt(DigitChars, i + 1) \o "] User: " \o recent[i].raw_query,
      "       -> " \o _query_summary(recent[i])>>

RECURSIVE AllContextLines(_, _)
AllContextLines(recent, i) ==
    IF i > Len(recent) THEN <<>> ELSE ContextLines(recent, i) \o AllContextLines(recent, i + 1)

\* to_prompt_context with the hint that always carries the header.
to_prompt_context_AlwaysHeader(h, n) ==
    join("\n", <<"CONVERSATION HISTORY (most recent last):">>
                \o AllContextLines(Recent(h, n), 1)
                \o <<"", "If the next query is a follow-up, inherit metric/group_by/intent from above.">>)

to_prompt_context(h, n) ==
    IF Recent(h, n) = <<>> THEN ""
    ELSE join("\n", <<"CONVERSATION HISTORY (most recent last):">>
                     \o AllContextLines(Recent(h, n), 1)
                     \o <<"", "If the next query is a follow-up, inherit metric/group_by/intent from above.">>)

-----------------------------------------------------------------------------
(* The dataset: a table with a set of columns and a sequence of rows.      *)
(* A row is a record over every modelled column; `cols` says which of them *)
(* the table has.  Reading a column outside `cols` raises KeyError.        *)

AllCols ==
    {"timestamp", "network_type", "merchant_category", "sender_state",
     "day_of_week", "month", "hour_of_day", "is_weekend", "is_fraud",
     "is_failed", "amount_inr"}

NumericCols == {"timestamp", "hour_of_day", "is_weekend", "is_fraud", "is_failed", "amount_inr"}

DAY_ORDER == <<"Monday", "Tuesday", "Wednesday", "Thursday", "Friday", "Saturday", "Sunday">>

\* Sort order of the values of each non-numeric column (categories are
\* sorted lexicographically at load, day_of_week Monday first).
ColumnOrder(col) ==
    CASE col = "network_type" -> <<"3G", "4G", "5G", "WiFi">>
      [] col = "merchant_category" -> <<"Food", "Fuel", "Grocery">>
      [] col = "sender_state" -> <<"Delhi", "Karnataka", "Maharashtra">>
      [] col = "day_of_week" -> DAY_ORDER
      [] col = "month" -> <<"2024-01", "2024-02", "2024-03">>
      [] OTHER -> <<>>

Row(net, cat, state, day, month, tsmonth, hour, weekend, fraud, failed, amount) ==
    [network_type |-> net, merchant_category |-> cat, sender_state |-> state,
     day_of_week |-> day, month |-> month, timestamp |-> tsmonth,
     hour_of_day |-> hour, is_weekend |-> weekend, is_fraud |-> fraud,
     is_failed |-> failed, amount_inr |-> amount]

RowPool ==
    << Row("3G", "Food", "Delhi", "Monday", "2024-01", 1, 18, 0, 0, 1, 100),
       Row("5G", "Fuel", "Karnataka", "Saturday", "2024-02", 2, 9, 1, 1, 0, 300),
       Row("4G", "Food", "Delhi", "Sunday", "2024-03", 3, 22, 1, 0, 0, 200),
       Row("WiFi", "Grocery", "Maharashtra", "Tuesday", "2024-01", 1, 19, 0, 0, 1, 50) >>

\* Row order never reaches a result of execute_query (every table it
\* returns comes out of a groupby, which sorts by key), so datasets are
\* enumerated as non-decreasing sequences of pool indices.
RowIndexSeqs ==
    UNION {{s \in [1..n -> DOMAIN RowPool] : \A i \in 1..(n - 1) : s[i] <= s[i + 1]} : n \in 0..MaxRows}

Schemas ==
    {AllCols} \cup {AllCols \ {c} : c \in {"hour_of_day", "is_weekend", "is_failed", "merchant_category"}}

DataFrame(cols, rows) == [cols |-> cols, rows |-> rows]

Datasets ==
    {DataFrame(cols, [i \in DOMAIN s |-> RowPool[s[i]]]) : cols \in Schemas, s \in RowIndexSeqs}

-----------------------------------------------------------------------------
(* src/src/analytics_engine.py: metric table, labels, result record *)

METRIC_AGG ==
    [fraud_rate   |-> [col |-> Some("is_fraud"),   agg |-> "mean",  scale |-> 100, fmt |-> "{:.2f}%",   label |-> "Fraud Rate (%)"],
     failure_rate |-> [col |-> Some("is_failed"),  agg |-> "mean",  scale |-> 100, fmt |-> "{:.2f}%",   label |-> "Failure Rate (%)"],
     avg_amount   |-> [col |-> Some("amount_inr"), agg |-> "mean",  scale |-> 1,   fmt |-> "Rs{:,.2f}", label |-> "Avg Amount"],
     count        |-> [col |-> None,               agg |-> "count", scale |-> 1,   fmt |-> "{:,.0f}",   label |-> "Transaction Count"],
     total_volume |-> [col |-> Some("amount_inr"), agg |-> "sum",   scale |-> 1,   fmt |-> "Rs{:,.0f}", label |-> "Total Volume"]]

MetricNames == <<"fraud_rate", "failure_rate", "avg_amount", "count", "total_volume">>

DIM_LABELS ==
    [device_type |-> "Device", network_type |-> "Network", sender_state |-> "State",
     sender_bank |-> "Bank", merchant_category |-> "Category",
     sender_age_group |-> "Age Group", day_of_week |-> "Day of Week",
     hour_of_day |-> "Hour of Day", transaction_type |-> "Transaction Type",
     month |-> "Month", quarter |-> "Quarter"]

DimLabel(name) == IF name \in DOMAIN DIM_LABELS THEN DIM_LABELS[name] ELSE name

\* (The rupee sign of the source's formats and labels is written Rs.)
\* A metric value: the exact quotient num/den in lowest terms; den = 0 is NaN
\* (the mean of no rows).
NaN == [num |-> 0, den |-> 0]

Val(num, den) ==
    IF den = 0 THEN NaN
    ELSE LET g == GCD(Abs(num), den) IN [num |-> num \div g, den |-> den \div g]

IsNaN(v) == v.den = 0

ValLess(a, b) == a.num * b.den < b.num * a.den

ValSub(a, b) == Val(a.num * b.den - b.num * a.den, a.den * b.den)

AnalyticsResult(q, total) ==
    [success |-> TRUE, error |-> None, intent |-> q.intent, metric |-> q.metric,
     metric_label |-> IF q.metric \in DOMAIN METRIC_AGG THEN METRIC_AGG[q.metric].label ELSE q.metric,
     group_by |-> q.group_by, dim_label |-> DimLabel(OrEmpty(q.group_by)),
     filters |-> q.filters, scalar_value |-> None, scalar_fmt |-> None,
     result_df |-> None, total_rows |-> total, filtered_rows |-> 0,
     narrative |-> "", insight_bullets |-> <<>>, anomalies |-> <<>>,
     query_json |-> to_json(q)]

\* What a call produces: a returned value, or an exception that leaves it.
Return(v) == [raised |-> None, value |-> Some(v)]
Raise(e) == [raised |-> Some(e), value |-> None]

-----------------------------------------------------------------------------
(* _apply_filters *)

FilterRaises(d, filters) ==
    IF "is_weekend" \in DOMAIN filters /\ "is_weekend" \notin d.cols THEN Some("'is_weekend'")
    ELSE IF "month_num" \in DOMAIN filters /\ "timestamp" \notin d.cols THEN Some("'timestamp'")
    ELSE None

FilterMatch(d, r, col, val) ==
    IF col = "month_num" THEN r["timestamp"] = val
    ELSE IF col = "is_weekend" THEN r["is_weekend"] = val
    ELSE IF col \in d.cols THEN r[col] = val
    ELSE TRUE

_apply_filters(d, filters) ==
    IF FilterRaises(d, filters) # None THEN Raise(FilterRaises(d, filters)[1])
    ELSE Return(DataFrame(d.cols, SelectSeq(d.rows, LAMBDA r : \A col \in DOMAIN filters : FilterMatch(d, r, col, filters[col]))))

-----------------------------------------------------------------------------
(* _compute_metric *)

RECURSIVE SumCol(_, _)
SumCol(rows, col) == IF rows = <<>> THEN 0 ELSE rows[1][col] + SumCol(Tail(rows), col)

\* The aggregate of `rows` for an aggregation kind (count / mean / sum).
Aggregate(rows, agg, col, scale) ==
    CASE agg = "count" -> Val(Len(rows), 1)
      [] agg = "mean" -> Val(SumCol(rows, col[1]) * scale, Len(rows))
      [] agg = "sum" -> Val(SumCol(rows, col[1]), 1)

KeyLess(col, a, b) ==
    IF col \in NumericCols THEN a < b
    ELSE LET ord == ColumnOrder(col)
         IN (CHOOSE i \in DOMAIN ord : ord[i] = a) < (CHOOSE i \in DOMAIN ord : ord[i] = b)

RECURSIVE SortKeys(_, _)
SortKeys(keys, col) ==
    IF keys = {} THEN <<>>
    ELSE LET m == CHOOSE k \in keys : \A o \in keys \ {k} : KeyLess(col, k, o)
         IN <<m>> \o SortKeys(keys \ {m}, col)

\* df.groupby(group_col): one row per key, in key order, with the aggregate
\* and the group's row count.
GroupTable(d, agg, col, scale, group_col) ==
    LET keys == SortKeys({d.rows[i][group_col] : i \in DOMAIN d.rows}, group_col)
        grp(k) == SelectSeq(d.rows, LAMBDA r : r[group_col] = k)
    IN [column |-> group_col,
        rows |-> [i \in DOMAIN keys |-> [group |-> keys[i], value |-> Aggregate(grp(keys[i]), agg, col, scale), count |-> Len(grp(keys[i]))]]]

_compute_metric(d, metric, group_col) ==
    LET cfg == METRIC_AGG[metric]
    IN IF Truthy(group_col)
       THEN IF group_col[1] \notin d.cols THEN Raise("'" \o group_col[1] \o "'")
            ELSE IF cfg.col # None /\ cfg.col[1] \notin d.cols THEN Raise("'" \o cfg.col[1] \o "'")
            ELSE Return(GroupTable(d, cfg.agg, cfg.col, cfg.scale, group_col[1]))
       ELSE IF cfg.col # None /\ cfg.col[1] \notin d.cols THEN Raise("'" \o cfg.col[1] \o "'")
            ELSE Return([column |-> "", rows |-> <<[group |-> "", value |-> Aggregate(d.rows, cfg.agg, cfg.col, cfg.scale), count |-> Len(d.rows)]>>])

\* METRIC_AGG[metric]["fmt"].format(val): the format and the value it renders.
_fmt_value(val, metric) == [fmt |-> METRIC_AGG[metric].fmt, val |-> val]

-----------------------------------------------------------------------------
(* sort_values("value", ascending=...) and head(n) *)

\* pandas sorts a short column with insertion sort, and a descending sort
\* is the ascending sort of the reversed column, reversed: ties keep their
\* original order both ways.
RECURSIVE InsertRow(_, _, _)
InsertRow(x, sorted, asc) ==
    IF sorted = <<>> THEN <<x>>
    ELSE IF (IF asc THEN ValLess(x.value, sorted[1].value) ELSE ValLess(sorted[1].value, x.value))
         THEN <<x>> \o sorted
         ELSE <<sorted[1]>> \o InsertRow(x, Tail(sorted), asc)

\* Mutant: the requested direction is ignored, the sort is always descending.
RECURSIVE sort_values_Descending(_, _)
sort_values_Descending(rows, asc) ==
    IF rows = <<>> THEN <<>>
    ELSE InsertRow(rows[Len(rows)], sort_values_Descending(SubSeq(rows, 1, Len(rows) - 1), asc), FALSE)

RECURSIVE sort_values(_, _)
sort_values(rows, asc) ==
    IF rows = <<>> THEN <<>>
    ELSE InsertRow(rows[Len(rows)], sort_values(SubSeq(rows, 1, Len(rows) - 1), asc), asc)

\* DataFrame.head(n): the first n rows; a negative n drops the last -n rows.
head(rows, n) ==
    IF n >= 0 THEN SubSeq(rows, 1, IF n < Len(rows) THEN n ELSE Len(rows))
    ELSE SubSeq(rows, 1, Len(rows) + n)

-----------------------------------------------------------------------------
(* _build_narrative: the narrative's template and the bullets' groups *)

Bullet(text, group, value) == [text |-> text, group |-> group, value |-> value]

ExtraBullets(metric, group, top, bottom) ==
    CASE metric = "fraud_rate" /\ group = Some("sender_state") -> <<Bullet("regional variance", "", NaN)>>
      [] metric = "fraud_rate" /\ group = Some("hour_of_day") -> <<Bullet("late-night hours", "", NaN)>>
      [] metric = "failure_rate" /\ group = Some("network_type") -> <<Bullet("3G structurally higher", "", NaN)>>
      [] metric = "avg_amount" -> <<Bullet("spread", "", ValSub(top.value, bottom.value))>>
      [] OTHER -> <<>>

_build_narrative(rows, q, metric_label, dim_label) ==
    IF rows = <<>> THEN [narrative |-> "No data matched the filters.", bullets |-> <<>>]
    ELSE LET sorted_df == sort_values(rows, FALSE)
             top == sorted_df[1]
             bottom == sorted_df[Len(sorted_df)]
             top_name == IF Truthy(q.group_by) THEN top.group ELSE "Overall"
             bottom_name == IF Truthy(q.group_by) THEN bottom.group ELSE "Overall"
         IN [narrative |-> metric_label \o " analysis by **" \o dim_label \o "**",
             bullets |-> <<Bullet("highest", top_name, top.value), Bullet("lowest", bottom_name, bottom.value)>>
                         \o ExtraBullets(q.metric, q.group_by, top, bottom)]

-----------------------------------------------------------------------------
(* _detect_anomalies *)

RECURSIVE SumSeq(_)
SumSeq(xs) == IF xs = <<>> THEN 0 ELSE xs[1] + SumSeq(Tail(xs))

RECURSIVE LcmDen(_)
LcmDen(rows) ==
    IF rows = <<>> THEN 1
    ELSE LET l == LcmDen(Tail(rows)) d == rows[1].value.den
         IN (l \div GCD(l, d)) * d

\* k*v[i] - sum(v), over the common denominator: the deviation from the
\* mean, times k times that denominator.
Deviations(rows) ==
    LET L == LcmDen(rows)
        V == [i \in DOMAIN rows |-> rows[i].value.num * (L \div rows[i].value.den)]
        S == SumSeq(V)
    IN [i \in DOMAIN rows |-> Len(rows) * V[i] - S]

Squares(xs) == [i \in DOMAIN xs |-> xs[i] * xs[i]]

\* |z[i]| >= tnum/tden, with z = (v - mean) / std and std the population
\* standard deviation, stated without the square root.
IsOutlier(dev, i, tnum, tden) ==
    dev[i] * dev[i] * Len(dev) * tden * tden >= tnum * tnum * SumSeq(Squares(dev))

\* floor(10^digits * rem / den) for 0 <= rem < den, by long division.
RECURSIVE Digits(_, _, _)
Digits(rem, den, digits) ==
    IF digits = 0 THEN 0
    ELSE ((rem * 10) \div den) * (10 ^ (digits - 1)) + Digits((rem * 10) % den, den, digits - 1)

\* floor(10^6 * z^2) for z = (v - mean) / std.
ZSquared(d, n, sumsq) == ((d * d * n) \div sumsq) * 1000000 + Digits((d * d * n) % sumsq, sumsq, 6)

\* round(|z|, 2) in hundredths, from floor(10^6 * z^2): the k with
\* (k - 1/2)^2 <= 10^4 * z^2 < (k + 1/2)^2.  |z| is at most sqrt(n - 1).
RoundAbs(zsq, n) ==
    CHOOSE k \in 0..(100 * n) : (k = 0 \/ (2 * k - 1) * (2 * k - 1) * 25 <= zsq) /\ zsq < (2 * k + 1) * (2 * k + 1) * 25

\* round(float(z), 2), in hundredths.
z_score(d, n, sumsq) ==
    IF sumsq = 0 THEN 0
    ELSE IF d < 0 THEN 0 - RoundAbs(ZSquared(d, n, sumsq), n)
    ELSE RoundAbs(ZSquared(d, n, sumsq), n)

RECURSIVE InsertAnomaly(_, _)
InsertAnomaly(x, sorted) ==
    IF sorted = <<>> THEN <<x>>
    ELSE IF Abs(sorted[1].z_score) < Abs(x.z_score) THEN <<x>> \o sorted
         ELSE <<sorted[1]>> \o InsertAnomaly(x, Tail(sorted))

RECURSIVE SortAnomalies(_)
SortAnomalies(xs) ==
    IF xs = <<>> THEN <<>>
    ELSE InsertAnomaly(xs[Len(xs)], SortAnomalies(SubSeq(xs, 1, Len(xs) - 1)))

\* Mutant: the standard deviation is not tested against zero.
_detect_anomalies_NoStdCheck(rows, metric, tnum, tden) ==
    IF Len(rows) < 4 THEN <<>>
    ELSE LET dev == Deviations(rows)
             all == [i \in DOMAIN rows |->
                        [group |-> rows[i].group, value |-> rows[i].value,
                         dev |-> dev[i],
                         z_score |-> z_score(dev[i], Len(rows), SumSeq(Squares(dev))),
                         direction |-> IF dev[i] > 0 THEN "high" ELSE "low",
                         formatted |-> _fmt_value(rows[i].value, metric)]]
             idx == SelectSeq([i \in DOMAIN rows |-> i], LAMBDA i : IsOutlier(dev, i, tnum, tden))
         IN SortAnomalies([j \in DOMAIN idx |-> all[idx[j]]])

\* Each anomaly keeps its group, value and direction; `dev` is the exact
\* deviation (the z-score times a positive factor common to the table) and
\* z_score the z-score rounded to 2 places, by which the list is sorted.
\* The arithmetic is exact; the source's is in double precision, which can
\* differ where |z| equals the threshold exactly.
_detect_anomalies(rows, metric, tnum, tden) ==
    IF Len(rows) < 4 THEN <<>>
    ELSE LET dev == Deviations(rows)
         IN IF SumSeq(Squares(dev)) = 0 THEN <<>>
            ELSE LET all == [i \in DOMAIN rows |->
                                [group |-> rows[i].group, value |-> rows[i].value,
                                 dev |-> dev[i],
                                 z_score |-> z_score(dev[i], Len(rows), SumSeq(Squares(dev))),
                                 direction |-> IF dev[i] > 0 THEN "high" ELSE "low",
                                 formatted |-> _fmt_value(rows[i].value, metric)]]
                     idx == SelectSeq([i \in DOMAIN rows |-> i], LAMBDA i : IsOutlier(dev, i, tnum, tden))
                 IN SortAnomalies([j \in DOMAIN idx |-> all[idx[j]]])

-----------------------------------------------------------------------------
(* execute_query *)

Fail(res, msg) == [res EXCEPT !.success = FALSE, !.error = Some(msg)]

UnknownMetricError(metric) ==
    "Unknown metric '" \o metric \o "'. Supported: ['fraud_rate', 'failure_rate', 'avg_amount', 'count', 'total_volume']"

NoMatchError == "No transactions matched your filters. Try broadening the query."

\* Lines 286-294: the time-window restriction, outside every try block.
TimeWindowFilter(fdf, time_window) ==
    IF time_window = None THEN Return(fdf)
    ELSE LET tw == time_window[1]
         IN IF tw.type = "hour_range"
            THEN IF "hour_of_day" \notin fdf.cols THEN Raise("KeyError: 'hour_of_day'")
                 ELSE Return(DataFrame(fdf.cols, SelectSeq(fdf.rows, LAMBDA r : r.hour_of_day >= tw.min /\ r.hour_of_day <= tw.max)))
            ELSE IF tw.type \in {"weekend", "weekday"}
            THEN IF "is_weekend" \notin fdf.cols THEN Raise("KeyError: 'is_weekend'")
                 ELSE Return(DataFrame(fdf.cols, SelectSeq(fdf.rows, LAMBDA r : r.is_weekend = (IF tw.type = "weekend" THEN 1 ELSE 0))))
            ELSE Return(fdf)

\* Lines 296-306: the group column, none when the dataset lacks it.
ResolveGroupCol(q, fdf) ==
    IF Truthy(q.group_by) /\ q.group_by[1] \in fdf.cols THEN q.group_by ELSE None

\* Lines 314-336.
SingleBranch(q, fdf, res) ==
    LET scalar_df == _compute_metric(fdf, q.metric, None)
    IN IF scalar_df.raised # None THEN Fail(res, "Computation error: " \o scalar_df.raised[1])
       ELSE LET val == scalar_df.value[1].rows[1].value
                r2 == [res EXCEPT !.scalar_value = Some(val), !.scalar_fmt = Some(_fmt_value(val, q.metric))]
                top_dim == IF "merchant_category" \in fdf.cols THEN "merchant_category" ELSE "sender_state"
                ctx_df == _compute_metric(fdf, q.metric, Some(top_dim))
            IN IF ctx_df.raised # None THEN Fail(r2, "Computation error: " \o ctx_df.raised[1])
               ELSE [r2 EXCEPT !.result_df = Some([column |-> "group_by", rows |-> head(sort_values(ctx_df.value[1].rows, FALSE), 5)]),
                               !.narrative = "Overall **" \o res.metric_label \o "**",
                               !.insight_bullets = <<Bullet("Dataset covers", "", Val(res.total_rows, 1)),
                                                     Bullet("Filtered subset", "", Val(res.filtered_rows, 1)),
                                                     Bullet("Computed", "", val)>>]

\* Mutant: anomalies are detected on the table before top_n cuts it.
GroupedBranch_DetectBeforeHead(q, fdf, group_col, res) ==
    LET c == _compute_metric(fdf, q.metric, group_col)
    IN IF c.raised # None THEN Fail(res, "Computation error: " \o c.raised[1])
       ELSE LET agg_df == head(sort_values(c.value[1].rows, q.sort_ascending), q.top_n)
                nb == _build_narrative(agg_df, q, res.metric_label, res.dim_label)
            IN [res EXCEPT !.result_df = Some([column |-> group_col[1], rows |-> agg_df]),
                           !.narrative = nb.narrative,
                           !.insight_bullets = nb.bullets,
                           !.anomalies = _detect_anomalies(sort_values(c.value[1].rows, q.sort_ascending), q.metric, 2, 1)]

\* Lines 339-349.
GroupedBranch(q, fdf, group_col, res) ==
    LET c == _compute_metric(fdf, q.metric, group_col)
    IN IF c.raised # None THEN Fail(res, "Computation error: " \o c.raised[1])
       ELSE LET agg_df == head(sort_values(c.value[1].rows, q.sort_ascending), q.top_n)
                nb == _build_narrative(agg_df, q, res.metric_label, res.dim_label)
            IN [res EXCEPT !.result_df = Some([column |-> group_col[1], rows |-> agg_df]),
                           !.narrative = nb.narrative,
                           !.insight_bullets = nb.bullets,
                           !.anomalies = _detect_anomalies(agg_df, q.metric, 2, 1)]

FirstMax(rows) == CHOOSE i \in DOMAIN rows : (\A j \in DOMAIN rows : ~ValLess(rows[i].value, rows[j].value)) /\ (\A j \in 1..(i - 1) : ValLess(rows[j].value, rows[i].value))

FirstMin(rows) == CHOOSE i \in DOMAIN rows : (\A j \in DOMAIN rows : ~ValLess(rows[j].value, rows[i].value)) /\ (\A j \in 1..(i - 1) : ValLess(rows[i].value, rows[j].value))

\* Lines 352-383.  The table is in key order out of the groupby, which for
\* day_of_week, month, quarter and hour_of_day is the chronological order
\* the branch sorts by.
TrendBranch(q, fdf, group_col, res) ==
    LET time_col0 == IF group_col # None THEN group_col[1] ELSE "month"
        time_col == IF time_col0 \notin fdf.cols THEN "day_of_week" ELSE time_col0
        c == _compute_metric(fdf, q.metric, Some(time_col))
    IN IF c.raised # None THEN Fail(res, "Computation error: " \o c.raised[1])
       ELSE LET agg_df == c.value[1].rows
                r2 == [res EXCEPT !.result_df = Some([column |-> time_col, rows |-> agg_df])]
            IN IF agg_df = <<>> THEN Fail(r2, "Computation error: attempt to get argmax of an empty sequence")
               ELSE [r2 EXCEPT !.narrative = "**" \o res.metric_label \o "** trend over **" \o DimLabel(time_col) \o "**",
                               !.insight_bullets = <<Bullet("Peak period", agg_df[FirstMax(agg_df)].group, agg_df[FirstMax(agg_df)].value),
                                                     Bullet("Quietest period", agg_df[FirstMin(agg_df)].group, agg_df[FirstMin(agg_df)].value),
                                                     Bullet("Variance across periods", "", NaN)>>]

\* Lines 386-404.
AnomalyBranch(q, fdf, group_col, res) ==
    LET dim == IF group_col # None THEN group_col[1] ELSE "merchant_category"
        c == _compute_metric(fdf, q.metric, Some(dim))
    IN IF c.raised # None THEN Fail(res, "Computation error: " \o c.raised[1])
       ELSE LET agg_df == c.value[1].rows
                anomalies == _detect_anomalies(agg_df, q.metric, 3, 2)
            IN [res EXCEPT !.result_df = Some([column |-> dim, rows |-> agg_df]),
                           !.anomalies = anomalies,
                           !.narrative = IF anomalies # <<>> THEN "anomalies detected in " \o res.metric_label \o " by " \o res.dim_label
                                         ELSE "No significant anomalies detected",
                           !.insight_bullets = [i \in 1..(IF Len(anomalies) < 5 THEN Len(anomalies) ELSE 5) |->
                                                   Bullet(anomalies[i].direction \o " outlier", anomalies[i].group, anomalies[i].value)]]

\* Lines 406-412.
FallbackBranch(q, fdf, res) ==
    LET r2 == [res EXCEPT !.narrative = "Query parsed successfully but no dimension detected. Showing overall stats."]
        scalar_df == _compute_metric(fdf, q.metric, None)
    IN IF scalar_df.raised # None THEN Fail(r2, "Computation error: " \o scalar_df.raised[1])
       ELSE LET val == scalar_df.value[1].rows[1].value
            IN [r2 EXCEPT !.scalar_value = Some(val), !.scalar_fmt = Some(_fmt_value(val, q.metric))]

\* Lines 312-417: the intent dispatch inside the try block.
Dispatch(q, fdf, group_col, res) ==
    IF q.intent = "single" /\ group_col = None THEN SingleBranch(q, fdf, res)
    ELSE IF q.intent \in {"comparison", "ranking", "single"} /\ group_col # None THEN GroupedBranch(q, fdf, group_col, res)
    ELSE IF q.intent = "trend" THEN TrendBranch(q, fdf, group_col, res)
    ELSE IF q.intent = "anomaly" THEN AnomalyBranch(q, fdf, group_col, res)
    ELSE FallbackBranch(q, fdf, res)

\* Mutant: the check for an empty filtered set is missing.
FilterSteps_NoEmptyCheck(q, d, res) ==
    LET f == _apply_filters(d, q.filters)
    IN IF f.raised # None THEN Return(Fail(res, "Filter error: " \o f.raised[1]))
       ELSE LET fdf == f.value[1]
                r1 == [res EXCEPT !.filtered_rows = Len(fdf.rows)]
                w == TimeWindowFilter(fdf, q.time_window)
            IN IF w.raised # None THEN w
               ELSE Return(Dispatch(q, w.value[1], ResolveGroupCol(q, w.value[1]), r1))

\* Lines 272-294: filters, the empty check, then the time window.
FilterSteps(q, d, res) ==
    LET f == _apply_filters(d, q.filters)
    IN IF f.raised # None THEN Return(Fail(res, "Filter error: " \o f.raised[1]))
       ELSE LET fdf == f.value[1]
                r1 == [res EXCEPT !.filtered_rows = Len(fdf.rows)]
            IN IF Len(fdf.rows) = 0 THEN Return(Fail(r1, NoMatchError))
               ELSE LET w == TimeWindowFilter(fdf, q.time_window)
                    IN IF w.raised # None THEN w
                       ELSE Return(Dispatch(q, w.value[1], ResolveGroupCol(q, w.value[1]), r1))

ValidateMetric(q) == q.metric \in DOMAIN METRIC_AGG

\* Mutant: the metric is validated only after the filters have run.
execute_query_LateValidation(q, d) ==
    IF ~ValidateMetric(q)
    THEN LET f == _apply_filters(d, q.filters)
             n == IF f.raised = None THEN Len(f.value[1].rows) ELSE 0
         IN Return(Fail([AnalyticsResult(q, Len(d.rows)) EXCEPT !.filtered_rows = n], UnknownMetricError(q.metric)))
    ELSE FilterSteps(q, d, AnalyticsResult(q, Len(d.rows)))

execute_query(q, d) ==
    IF ~ValidateMetric(q) THEN Return(Fail(AnalyticsResult(q, Len(d.rows)), UnknownMetricError(q.metric)))
    ELSE FilterSteps(q, d, AnalyticsResult(q, Len(d.rows)))

-----------------------------------------------------------------------------
(* Specification SpecExec: execute_query called on structured queries *)

Intents == {"single", "comparison", "trend", "ranking", "anomaly"}

ExecMetrics == Range(MetricNames) \cup {"median"}

ExecFilters ==
    {<<>>, [network_type |-> "3G"], [is_weekend |-> 1],
     [network_type |-> "3G", is_weekend |-> 1], [sender_bank |-> "HDFC", month_num |-> 1]}

ExecTimeWindows ==
    {None, Some([type |-> "hour_range", label |-> "evening", min |-> 17, max |-> 20]),
     Some([type |-> "weekend"]), Some([type |-> "weekday"])}

ExecCompares == {<<>>, <<"3G", "5G">>}

ExecQueries ==
    {AnalyticalQuery(i, m, g, f, tw, s[1], s[2], 0, <<>>, "", FALSE, c) :
        i \in Intents, m \in ExecMetrics, g \in {None, Some("network_type")},
        f \in ExecFilters, tw \in ExecTimeWindows,
        s \in {<<FALSE, 10>>, <<TRUE, 1>>}, c \in ExecCompares}

\* The call's arguments are drawn in the initial state; the call is one step.
InitExec ==
    /\ df \in Datasets
    /\ query \in ExecQueries
    /\ history = <<>>
    /\ raw_query = ""
    /\ context_hint = ""
    /\ resolved = None
    /\ result = None
    /\ _FUZZY = FALSE
    /\ requests = 0
    /\ response = None
    /\ op = "call"

ExecuteQuery ==
    /\ op = "call"
    /\ result' = Some(execute_query(query, df))
    /\ op' = "execute_query"
    /\ UNCHANGED <<df, history, raw_query, context_hint, query, resolved, _FUZZY, requests, response>>

NextExec == ExecuteQuery

SpecExec == InitExec /\ [][NextExec]_vars

-----------------------------------------------------------------------------
(* Claims about execute_query, checked under SpecExec *)

Executed == op = "execute_query"

Returned == Executed /\ result[1].raised = None

Res == result[1].value[1]

\* The rows the filters leave; none when applying them raises.
Filtered == _apply_filters(df, query.filters)

FiltersMatchNoRow == Filtered.raised = None /\ Filtered.value[1].rows = <<>>

NothingPopulated(r) == r.scalar_value = None /\ r.scalar_fmt = None /\ r.result_df = None

\* C1: execute_query never raises: every call returns an AnalyticsResult,
\* and a result with success = false carries a non-empty error string.
C1_NeverRaises ==
    Executed =>
        /\ result[1].raised = None
        /\ (~Res.success => Res.error # None /\ Res.error[1] # "")

\* C2 as stated: for every query whose filters match no dataset row the
\* result is success = false with the no-match error, nothing populated.
C2_Original ==
    (Executed /\ FiltersMatchNoRow) =>
        /\ Returned
        /\ ~Res.success
        /\ Res.error = Some(NoMatchError)
        /\ NothingPopulated(Res)

\* C2 amended: for every query with one of the five known metrics whose
\* filters leave no dataset row, execute_query returns success = false with
\* the error 'No transactions matched your filters...' and scalar_value,
\* scalar_fmt and result_df unset, whatever the intent, group-by,
\* time-window or compare-set.
C2_NoMatch ==
    (Executed /\ ValidateMetric(query) /\ FiltersMatchNoRow) =>
        /\ Returned
        /\ ~Res.success
        /\ Res.error = Some(NoMatchError)
        /\ NothingPopulated(Res)

\* Witness of C2: a grouped comparison with a time window and a compare-set
\* on a non-empty dataset whose rows the filters all exclude.
C2_Witness ==
    /\ Executed /\ ValidateMetric(query) /\ FiltersMatchNoRow
    /\ df.rows # <<>>
    /\ query.intent = "comparison" /\ query.group_by # None
    /\ query.time_window # None /\ query.compare # <<>>
    /\ Res.error = Some(NoMatchError)

\* The rows the time window leaves of the filtered rows.
Windowed == TimeWindowFilter(Filtered.value[1], query.time_window)

WindowLeavesNoRow ==
    /\ ValidateMetric(query)
    /\ Filtered.raised = None /\ Filtered.value[1].rows # <<>>
    /\ query.time_window # None
    /\ Windowed.raised = None /\ Windowed.value[1].rows = <<>>

\* C3: when the filters leave at least one row and the time window leaves
\* none, execute_query returns success = false with an error and neither
\* scalar nor table, for every intent and metric.
C3_EmptyWindowAborts ==
    (Executed /\ WindowLeavesNoRow) =>
        /\ Returned
        /\ ~Res.success
        /\ Res.error # None
        /\ NothingPopulated(Res)

CompareApplies ==
    /\ ValidateMetric(query)
    /\ query.compare # <<>>
    /\ Truthy(query.group_by) /\ query.group_by[1] \in df.cols

\* The rows left by the filters and the time window.
Restricted == Windowed.value[1].rows

\* C4: with a non-empty compare-set and a group-by column of the dataset,
\* the result table holds only groups that are members of the compare-set,
\* and the call fails when no row belongs to the compare-set.
C4_CompareRestricts ==
    (Returned /\ CompareApplies) =>
        /\ (Res.result_df # None =>
                \A i \in DOMAIN Res.result_df[1].rows :
                    Res.result_df[1].rows[i].group \in Range(query.compare))
        /\ ((/\ Filtered.raised = None /\ Filtered.value[1].rows # <<>>
             /\ Windowed.raised = None
             /\ \A i \in DOMAIN Restricted : Restricted[i][query.group_by[1]] \notin Range(query.compare))
            => ~Res.success)

\* C5: a query whose metric is none of the five known metrics fails at
\* once: success = false, the error names the metric, filtered_rows stays 0
\* and neither scalar nor table is populated.
C5_UnknownMetric ==
    (Executed /\ ~ValidateMetric(query)) =>
        /\ Returned
        /\ ~Res.success
        /\ Res.error # None /\ Contains(Res.error[1], "Unknown metric") /\ Contains(Res.error[1], "'" \o query.metric \o "'")
        /\ Res.filtered_rows = 0
        /\ NothingPopulated(Res)

\* Witness of C5: an unknown metric on a dataset where the filters would
\* have kept rows and the intent would have produced a table.
C5_Witness ==
    /\ Executed /\ ~ValidateMetric(query)
    /\ Filtered.raised = None /\ Filtered.value[1].rows # <<>>
    /\ query.filters # <<>> /\ query.intent = "ranking" /\ query.group_by # None
    /\ ~Res.success

-----------------------------------------------------------------------------
(* Specification SpecAnom: execute_query on grouped tables of up to
   MaxGroups groups *)

\* One transaction per day of the week over the four networks: a small one,
\* a large, fraudulent, failed one, and five of the same amount.
AnomRowPool ==
    << Row("3G", "Food", "Delhi", "Monday", "2024-01", 1, 18, 0, 0, 0, 500),
       Row("4G", "Food", "Delhi", "Tuesday", "2024-01", 1, 18, 0, 0, 0, 500),
       Row("5G", "Fuel", "Karnataka", "Wednesday", "2024-01", 1, 9, 0, 0, 0, 500),
       Row("WiFi", "Fuel", "Karnataka", "Thursday", "2024-02", 2, 9, 0, 0, 0, 500),
       Row("3G", "Grocery", "Maharashtra", "Friday", "2024-02", 2, 22, 0, 0, 0, 100),
       Row("4G", "Grocery", "Maharashtra", "Saturday", "2024-02", 2, 22, 1, 1, 1, 901),
       Row("5G", "Food", "Delhi", "Sunday", "2024-03", 3, 19, 1, 0, 0, 500) >>

\* The pool's rows with an index in S, in pool order.
PoolRows(S) ==
    [j \in 1..Cardinality(S) |-> AnomRowPool[CHOOSE i \in S : Cardinality({k \in S : k < i}) = j - 1]]

AnomDatasets ==
    {DataFrame(AllCols, PoolRows(S)) : S \in {T \in SUBSET DOMAIN AnomRowPool : Cardinality(T) <= MaxGroups}}

AnomQueries ==
    {AnalyticalQuery(i, m, Some(g), <<>>, None, s[1], s[2], 0, <<>>, "", FALSE, <<>>) :
        i \in Intents, m \in {"count", "avg_amount", "fraud_rate"},
        g \in {"day_of_week", "network_type"},
        s \in {<<FALSE, 10>>, <<FALSE, 3>>, <<TRUE, 3>>, <<FALSE, 5>>}}

InitAnom ==
    /\ df \in AnomDatasets
    /\ query \in AnomQueries
    /\ history = <<>>
    /\ raw_query = ""
    /\ context_hint = ""
    /\ resolved = None
    /\ result = None
    /\ _FUZZY = FALSE
    /\ requests = 0
    /\ response = None
    /\ op = "call"

NextAnom == ExecuteQuery

SpecAnom == InitAnom /\ [][NextAnom]_vars

-----------------------------------------------------------------------------
(* Claims about anomaly detection, checked under SpecAnom *)

\* The grouped table of the result, and the table before any truncation.
ResTable == Res.result_df[1].rows

FullTable == _compute_metric(df, query.metric, query.group_by).value[1].rows

Grouped == Returned /\ Res.success /\ Res.result_df # None

SameValue(rows) == \A i, j \in DOMAIN rows : ~ValLess(rows[i].value, rows[j].value)

\* C17: a result whose grouped table has fewer than 4 rows has no
\* anomalies, whatever the values; in the comparison/ranking path the table
\* is the one already cut by top_n.
C17_FewGroupsNoAnomalies ==
    Grouped =>
        /\ Len(ResTable) < 4 => Res.anomalies = <<>>
        /\ query.intent \in {"comparison", "ranking", "single"} =>
               /\ ResTable = head(sort_values(FullTable, query.sort_ascending), query.top_n)
               /\ Res.anomalies = _detect_anomalies(ResTable, query.metric, 2, 1)

\* Witness of C17: a ranking over six groups, one of them an outlier of the
\* full table, cut to three rows by top_n and reported without anomalies.
C17_Witness ==
    /\ Grouped /\ query.intent = "ranking" /\ query.top_n = 3
    /\ Len(FullTable) = 6 /\ Len(ResTable) = 3
    /\ _detect_anomalies(FullTable, query.metric, 2, 1) # <<>>
    /\ ~SameValue(ResTable)
    /\ Res.anomalies = <<>>

\* C18: a result whose grouped table has the same value in every row has no
\* anomalies, for any number of rows, in the comparison/ranking path
\* (threshold 2.0) and in the anomaly path (threshold 1.5).
C18_EqualValuesNoAnomalies ==
    (Grouped /\ SameValue(ResTable)) =>
        /\ Res.anomalies = <<>>
        /\ \A t \in {<<2, 1>>, <<3, 2>>} : _detect_anomalies(ResTable, query.metric, t[1], t[2]) = <<>>

\* Witness of C18: the anomaly path on five groups that all have the same
\* average amount.
C18_Witness ==
    /\ Grouped /\ query.intent = "anomaly" /\ query.metric = "avg_amount"
    /\ Len(ResTable) = 5 /\ SameValue(ResTable)
    /\ Res.anomalies = <<>>

-----------------------------------------------------------------------------
(* Specification SpecParse: parse_query called on a text and a hint *)

\* The words a request text is made of.
Lexicon ==
    <<"HDFC", "SBI,", "iOS/Android", "3G", "5G", "P2P/P2M", "vs.", "top", "trend", "failure", "for", "0">>

RECURSIVE Join(_)
Join(words) ==
    IF words = <<>> THEN ""
    ELSE IF Len(words) = 1 THEN words[1]
    ELSE words[1] \o " " \o Join(Tail(words))

Texts == {Join([i \in DOMAIN s |-> Lexicon[s[i]]]) : s \in UNION {[1..n -> DOMAIN Lexicon] : n \in 0..MaxWords}}

Hints == {"", "CONVERSATION HISTORY (most recent last):"}

InitParse ==
    /\ raw_query \in Texts
    /\ context_hint \in Hints
    /\ _FUZZY \in BOOLEAN
    /\ df = DataFrame({}, <<>>)
    /\ history = <<>>
    /\ query = DefaultQuery
    /\ resolved = None
    /\ result = None
    /\ requests = 0
    /\ response = None
    /\ op = "call"

ParseQuery ==
    /\ op = "call"
    /\ query' = parse_query(raw_query, context_hint, _FUZZY)
    /\ op' = "parse_query"
    /\ UNCHANGED <<df, history, raw_query, context_hint, _FUZZY, resolved, result, requests, response>>

NextParse == ParseQuery

SpecParse == InitParse /\ [][NextParse]_vars

-----------------------------------------------------------------------------
(* Claims about parse_query, checked under SpecParse *)

Parsed == op = "parse_query"

\* The closed vocabularies that can be promoted, with their dimensions, in
\* the order the parser examines them.
Promotable ==
    <<[dim |-> "sender_bank", vocab |-> BANKS],
      [dim |-> "device_type", vocab |-> DEVICES],
      [dim |-> "network_type", vocab |-> NETWORKS],
      [dim |-> "transaction_type", vocab |-> TXN_TYPES]>>

\* The members of a vocabulary the normalized text mentions, in the order
\* of the vocabulary table.
Mentioned(vocab) == SelectSeq(vocab, LAMBDA member : Contains(_tok(raw_query), lower(member)))

PromotedTo(v) ==
    /\ query.group_by = Some(Promotable[v].dim)
    /\ query.compare = Mentioned(Promotable[v].vocab)
    /\ query.intent = "comparison"
    /\ Promotable[v].dim \notin DOMAIN query.filters

\* C6 as stated: whenever the text mentions at least 2 distinct members of
\* one closed vocabulary, the query has group_by set to that vocabulary's
\* dimension, compare equal to the mentioned members in table order,
\* intent = comparison and no filter on that dimension.
C6_Original ==
    Parsed => \A v \in DOMAIN Promotable :
        Len(Mentioned(Promotable[v].vocab)) >= 2 => PromotedTo(v)

\* C6 amended: the promotion is made for the first vocabulary, in the order
\* banks, devices, networks, transaction types, of which the text mentions
\* at least 2 distinct members: group_by is its dimension, compare is its
\* mentioned members in table order, intent = comparison, and no filter is
\* left on its dimension.
C6_Promotion ==
    Parsed => \A v \in DOMAIN Promotable :
        (/\ Len(Mentioned(Promotable[v].vocab)) >= 2
         /\ \A u \in 1..(v - 1) : Len(Mentioned(Promotable[u].vocab)) < 2)
        => PromotedTo(v)

\* Witness of C6: '5G 3G' names the networks against the table order and
\* is parsed to compare = [3G, 5G] grouped by network with no network filter.
C6_Witness ==
    /\ Parsed /\ raw_query = "5G 3G"
    /\ query.compare = <<"3G", "5G">>
    /\ query.group_by = Some("network_type")
    /\ query.intent = "comparison"
    /\ "network_type" \notin DOMAIN query.filters

NoPromotion == \A v \in DOMAIN Promotable : Len(Mentioned(Promotable[v].vocab)) < 2

\* C7: when the text mentions exactly one network and no vocabulary has 2
\* or more members mentioned, group_by is network_type, with confidence
\* 0.85 when no other dimension was detected, and compare is empty.
C7_LoneNetwork ==
    (Parsed /\ Len(Mentioned(NETWORKS)) = 1 /\ NoPromotion) =>
        /\ query.group_by = Some("network_type")
        /\ (_detect_groupby(_tok(raw_query))[1] \in {None, Some("network_type")}
                => query.confidence_reasoning.group_conf = Some(85))
        /\ query.compare = <<>>

ComparisonForced ==
    \/ Len(query.compare) >= 2
    \/ Contains(_tok(raw_query), "vs")
    \/ Contains(_tok(raw_query), "versus")
    \/ Contains(_tok(raw_query), "compare")

\* C8: if the returned compare-set has 2 or more entries, or the normalized
\* text contains 'vs', 'versus' or 'compare', the returned intent is
\* comparison, even when ranking or trend keywords are also present.
C8_IntentOverride == (Parsed /\ ComparisonForced) => query.intent = "comparison"

\* Witness of C8: a text with a ranking keyword and 'vs' and no compare-set.
C8_Witness ==
    /\ Parsed /\ raw_query = "top vs."
    /\ _any_kw(_tok(raw_query), RankingOverrideKw)
    /\ Contains(_tok(raw_query), "vs")
    /\ query.compare = <<>>
    /\ query.intent = "comparison"

\* No detector of the parser matches the text: no keyword of the intent,
\* metric, dimension or ascending tables, no vocabulary entry (exact or
\* fuzzy), no age, transaction-type, weekend or month word.
NoMatch(raw, tok, fuzzy) ==
    /\ \A table \in {INTENT_KEYWORDS, METRIC_KEYWORDS, DIM_KEYWORDS} :
           \A i \in DOMAIN table : ~_any_kw(tok, table[i][2])
    /\ ~_any_kw(tok, ASCENDING_KW)
    /\ \A vocab \in {STATES, BANKS, CATEGORIES, DEVICES, NETWORKS} : FirstIn(tok, vocab) = 0
    /\ StateFilter(<<>>, tok, fuzzy) = <<>>
    /\ AgeFilter(<<>>, raw, tok) = <<>>
    /\ TxnFilter(<<>>, tok) = <<>>
    /\ WeekendFilter(<<>>, tok) = <<>>
    /\ MonthFilter(<<>>, tok) = <<>>

\* C16: for every text, the empty string included, parse_query returns a
\* query whose intent is one of the five intents, whose metric is one of the
\* five metrics and whose confidence is in [0, 1]; when nothing matches, the
\* query is single / count / no group-by / no filters / no compare / top 10 /
\* descending.
C16_ParserNeverFails ==
    Parsed =>
        /\ query.intent \in Intents
        /\ query.metric \in Range(MetricNames)
        /\ query.confidence \in 0..100
        /\ query.raw_query = raw_query
        /\ NoMatch(raw_query, _tok(raw_query), _FUZZY) =>
               /\ query.intent = "single" /\ query.metric = "count"
               /\ query.group_by = None /\ query.filters = <<>>
               /\ query.compare = <<>> /\ query.top_n = 10
               /\ ~query.sort_ascending

\* Witness of C16: the empty string, which matches nothing, was parsed to
\* the defaults with the low confidence of the fallbacks.
C16_Witness ==
    /\ Parsed /\ raw_query = ""
    /\ NoMatch(raw_query, _tok(raw_query), _FUZZY)
    /\ query.intent = "single" /\ query.metric = "count"
    /\ query.confidence = 47

-----------------------------------------------------------------------------
(* Specification SpecMem: queries pushed to a ContextMemory, and clear *)

MemFilters ==
    {<<>>,
     [sender_state |-> "Maharashtra", device_type |-> "Android"],
     [sender_state |-> "Delhi"],
     [device_type |-> "iOS", network_type |-> "4G"]}

\* Queries as parse_query returns them: one with every field at its
\* default, one ranking, one comparison and one trend, each with any of the
\* filter maps and with or without the follow-up flag.
MemQueries ==
    {AnalyticalQuery(s.intent, s.metric, s.group_by, f, s.time_window, s.sort_ascending, s.top_n, s.confidence, "", s.raw, fu, s.compare) :
        s \in {[intent |-> "single", metric |-> "count", group_by |-> None, time_window |-> None,
                sort_ascending |-> FALSE, top_n |-> 10, confidence |-> 47, raw |-> "what about for", compare |-> <<>>],
               [intent |-> "ranking", metric |-> "fraud_rate", group_by |-> Some("sender_state"), time_window |-> None,
                sort_ascending |-> TRUE, top_n |-> 5, confidence |-> 82, raw |-> "lowest 5 states by fraud for", compare |-> <<>>],
               [intent |-> "comparison", metric |-> "failure_rate", group_by |-> Some("sender_bank"),
                time_window |-> Some([type |-> "hour_range", label |-> "evening", min |-> 17, max |-> 20]),
                sort_ascending |-> FALSE, top_n |-> 10, confidence |-> 88, raw |-> "only HDFC vs SBI failure evening", compare |-> <<"HDFC", "SBI">>],
               [intent |-> "trend", metric |-> "avg_amount", group_by |-> Some("month"),
                time_window |-> Some([type |-> "weekend"]),
                sort_ascending |-> FALSE, top_n |-> 3, confidence |-> 85, raw |-> "just 3G vs 5G monthly average weekend top 3", compare |-> <<"3G", "5G">>]},
        f \in MemFilters, fu \in BOOLEAN}

InitMem ==
    /\ history = <<>>
    /\ query = DefaultQuery
    /\ resolved = None
    /\ requests = 0
    /\ response = None
    /\ df = DataFrame({}, <<>>)
    /\ raw_query = ""
    /\ context_hint = ""
    /\ result = None
    /\ _FUZZY = FALSE
    /\ op = "init"

Push ==
    /\ requests < MaxRequests
    /\ \E ctx \in MemQueries :
        /\ query' = ctx
        /\ history' = push(history, ctx).history
        /\ resolved' = Some(push(history, ctx).resolved)
    /\ requests' = requests + 1
    /\ op' = "push"
    /\ UNCHANGED <<df, raw_query, context_hint, result, _FUZZY, response>>

Clear ==
    /\ history' = clear(history)
    /\ op' = "clear"
    /\ UNCHANGED <<df, raw_query, context_hint, query, resolved, result, _FUZZY, requests, response>>

NextMem == Push \/ Clear

SpecMem == InitMem /\ [][NextMem]_vars

-----------------------------------------------------------------------------
(* Claims about ContextMemory, checked under SpecMem *)

Pushed == op = "push"

\* C9: push(q) appends exactly one entry and returns it, so that last() is
\* the returned query right after the call; the entry is the merge of the
\* previous last entry with q when q.followup is true and the history is
\* non-empty, and q itself otherwise.
C9_PushStoresResolved ==
    [][Pushed' =>
        /\ resolved' # None
        /\ last(history') = resolved'
        /\ \E dropped \in {0, 1} :
              history' = Append(SubSeq(history, 1 + dropped, Len(history)), resolved'[1])
        /\ resolved'[1] = IF query'.followup /\ history # <<>>
                          THEN _merge(history[Len(history)], query')
                          ELSE query']_vars

\* Witness of C9: a follow-up pushed on a non-empty history; the entry
\* stored and returned is the merge, which differs from the follow-up.
C9_Witness ==
    /\ Pushed /\ query.followup /\ Len(history) >= 2
    /\ resolved = Some(_merge(history[Len(history) - 1], query))
    /\ resolved[1] # query
    /\ last(history) = resolved

Agrees(merged, P, F) ==
    /\ DOMAIN merged = DOMAIN P \cup DOMAIN F
    /\ \A k \in DOMAIN F : merged[k] = F[k]
    /\ \A k \in DOMAIN P \ DOMAIN F : merged[k] = P[k]

\* C10: for a follow-up F merged onto the prior query P, the merged
\* filters are the union of P.filters and F.filters: F's value for every
\* key of F, P's value for every key of P absent from F.
C10_AdditiveFilters ==
    [][(Pushed' /\ query'.followup /\ history # <<>>) =>
        Agrees(resolved'[1].filters, history[Len(history)].filters, query'.filters)]_vars

\* Witness of C10: a merge where one key collides with different values,
\* one key comes from the prior query only and one from the follow-up only.
C10_Witness ==
    /\ Pushed /\ query.followup /\ Len(history) >= 2
    /\ LET P == history[Len(history) - 1].filters
           F == query.filters
           merged == resolved[1].filters
       IN /\ \E k \in DOMAIN P \cap DOMAIN F : P[k] # F[k] /\ merged[k] = F[k]
          /\ \E k \in DOMAIN P \ DOMAIN F : merged[k] = P[k]
          /\ \E k \in DOMAIN F \ DOMAIN P : merged[k] = F[k]

\* The prior query P, the follow-up F and the merged query of a push step
\* that merges.
Merging == Pushed' /\ query'.followup /\ history # <<>>

\* C11: the merge replaces compare, time-window and top-N wholesale: the
\* merged compare-set is the follow-up's when that is non-empty, the merged
\* time-window is the follow-up's when that is not none, the merged top-N
\* is the follow-up's when that is not 10; otherwise each keeps the prior
\* query's value.
C11_ReplaceWholesale ==
    [][Merging =>
        /\ resolved'[1].compare = IF query'.compare # <<>> THEN query'.compare ELSE history[Len(history)].compare
        /\ resolved'[1].time_window = IF query'.time_window # None THEN query'.time_window ELSE history[Len(history)].time_window
        /\ resolved'[1].top_n = IF query'.top_n # 10 THEN query'.top_n ELSE history[Len(history)].top_n]_vars

\* Witness of C11: the prior query and the follow-up both have a compare-set,
\* a time-window and a top-N, all different, and the merged query has the
\* follow-up's three.
C11_Witness ==
    /\ Pushed /\ query.followup /\ Len(history) >= 2
    /\ history[Len(history) - 1].compare # <<>> /\ query.compare # <<>>
    /\ Range(history[Len(history) - 1].compare) \cap Range(query.compare) = {}
    /\ history[Len(history) - 1].time_window \notin {None, query.time_window} /\ query.time_window # None
    /\ history[Len(history) - 1].top_n \notin {10, query.top_n} /\ query.top_n # 10
    /\ resolved[1].compare = query.compare
    /\ resolved[1].time_window = query.time_window
    /\ resolved[1].top_n = query.top_n

\* C12: the merged intent is the follow-up's unless that is 'single', the
\* merged metric is the follow-up's unless that is 'count', the merged
\* group-by is the follow-up's unless that is none; in each excepted case
\* the prior query's value is kept; the merged query has followup = true
\* and the follow-up's raw text.
C12_InheritIntentMetricGroup ==
    [][Merging =>
        /\ resolved'[1].intent = IF query'.intent # "single" THEN query'.intent ELSE history[Len(history)].intent
        /\ resolved'[1].metric = IF query'.metric # "count" THEN query'.metric ELSE history[Len(history)].metric
        /\ resolved'[1].group_by = IF query'.group_by # None THEN query'.group_by ELSE history[Len(history)].group_by
        /\ resolved'[1].followup
        /\ resolved'[1].raw_query = query'.raw_query]_vars

\* Witness of C12: a follow-up with the default intent, metric and group-by
\* merged onto a ranking of fraud rate by state.
C12_Witness ==
    /\ Pushed /\ query.followup /\ Len(history) >= 2
    /\ query.intent = "single" /\ query.metric = "count" /\ query.group_by = None
    /\ history[Len(history) - 1].intent = "ranking"
    /\ resolved[1].intent = "ranking"
    /\ resolved[1].metric = "fraud_rate"
    /\ resolved[1].group_by = Some("sender_state")
    /\ resolved[1].followup /\ resolved[1].raw_query = query.raw_query

\* C13: the history never holds more than max_history entries; a push on a
\* full history removes exactly the oldest entry and keeps the others in
\* order with the new entry last, and a push on a history that is not full
\* removes nothing.
C13_BoundedFifo ==
    [][/\ Len(history') <= _max
       /\ Pushed' =>
            history' = Append(IF Len(history) = _max THEN Tail(history) ELSE history, resolved'[1])]_vars

\* Witness of C13: a full history whose oldest entry is a merged query, so
\* that the entry it was merged onto has been evicted.
C13_Witness ==
    /\ Pushed /\ Len(history) = _max
    /\ history[1] \notin MemQueries
    /\ last(history) = resolved

-----------------------------------------------------------------------------
(* src/src/response_generator.py: generate_response *)

_confidence_label(conf) ==
    IF conf >= 85 THEN "Very High"
    ELSE IF conf >= 70 THEN "High"
    ELSE IF conf >= 55 THEN "Medium"
    ELSE "Low"

_select_chart_type(res) ==
    IF Len(res.compare) >= 2 THEN "comparison"
    ELSE IF res.intent = "trend" THEN "line"
    ELSE IF res.intent = "anomaly" THEN "anomaly"
    ELSE IF res.intent = "single" /\ res.scalar_value # None /\ ~Truthy(res.group_by) THEN "gauge"
    ELSE IF res.group_by \in {Some("device_type"), Some("transaction_type")} /\ res.metric = "count" THEN "donut"
    ELSE "bar"

\* A call of _select_chart_type: its first statement reads result.compare,
\* which raises AttributeError on an object without that attribute.
_select_chart_type_call(res) ==
    IF "compare" \notin DOMAIN res
    THEN Raise("AttributeError: 'AnalyticsResult' object has no attribute 'compare'")
    ELSE Return(_select_chart_type(res))

\* The headline, as the parts it is formatted from.
_build_headline(res) ==
    IF Len(res.compare) >= 2 THEN [kind |-> "versus", compare |-> res.compare, metric_label |-> res.metric_label]
    ELSE IF res.intent = "single" /\ Truthy(res.scalar_fmt) THEN [kind |-> "scalar", metric_label |-> res.metric_label, scalar_fmt |-> res.scalar_fmt[1]]
    ELSE IF res.intent \in {"comparison", "ranking"} /\ res.result_df # None
         THEN [kind |-> "top", dim_label |-> res.dim_label, metric_label |-> res.metric_label,
               best |-> sort_values(res.result_df[1].rows, FALSE)[1]]
    ELSE IF res.intent = "trend" THEN [kind |-> "trend", metric_label |-> res.metric_label, dim_label |-> res.dim_label]
    ELSE IF res.intent = "anomaly" THEN [kind |-> "anomaly", count |-> Len(res.anomalies), metric_label |-> res.metric_label, dim_label |-> res.dim_label]
    ELSE [kind |-> "analysis", metric_label |-> res.metric_label]

\* _build_headline reads result.compare first of all the functions that do;
\* reading an attribute the dataclass does not have raises AttributeError.
generate_response(res, confidence) ==
    IF "compare" \notin DOMAIN res
    THEN Raise("AttributeError: 'AnalyticsResult' object has no attribute 'compare'")
    ELSE Return([headline |-> _build_headline(res), narrative |-> res.narrative,
                 bullets |-> res.insight_bullets, confidence_bar |-> confidence,
                 confidence_label |-> _confidence_label(confidence),
                 chart_type |-> _select_chart_type(res),
                 has_anomalies |-> Len(res.anomalies) > 0, anomaly_count |-> Len(res.anomalies)])

-----------------------------------------------------------------------------
(* Specification SpecApp: the request pipeline of src/app.py *)

\* The texts a user sends.
AppTexts ==
    {"HDFC vs SBI", "what about only HDFC?", "which state", "only Delhi",
     "fraud for 3G", "hourly fraud"}

AppDatasets ==
    {DataFrame(AllCols, <<RowPool[1], RowPool[2], RowPool[3]>>),
     DataFrame(AllCols, <<RowPool[4]>>)}

InitApp ==
    /\ df \in AppDatasets
    /\ _FUZZY \in BOOLEAN
    /\ history = <<>>
    /\ raw_query = ""
    /\ context_hint = ""
    /\ query = DefaultQuery
    /\ resolved = None
    /\ result = None
    /\ response = None
    /\ requests = 0
    /\ op = "init"

\* Lines 474-476 on the parsed query: execute_query, then generate_response
\* on its result unless execute_query raised.
Respond(executed) ==
    IF executed.raised # None THEN None
    ELSE Some(generate_response(executed.value[1], query'.confidence))

\* Lines 463-476: one user query processed.
Request ==
    /\ requests < MaxRequests
    /\ \E text \in AppTexts :
        /\ raw_query' = text
        /\ context_hint' = to_prompt_context(history, 3)
        /\ query' = parse_query(text, context_hint', _FUZZY)
    /\ history' = push(history, query').history
    /\ resolved' = Some(push(history, query').resolved)
    /\ result' = Some(execute_query(query', df))
    /\ response' = Respond(result'[1])
    /\ requests' = requests + 1
    /\ op' = "request"
    /\ UNCHANGED <<df, _FUZZY>>

\* Lines 228-232: the Clear Chat button.
ClearChat ==
    /\ history' = clear(history)
    /\ op' = "clear"
    /\ UNCHANGED <<df, raw_query, context_hint, query, resolved, result, _FUZZY, requests, response>>

NextApp == Request \/ ClearChat

SpecApp == InitApp /\ [][NextApp]_vars

-----------------------------------------------------------------------------
(* Claims about the request pipeline, checked under SpecApp *)

Requested == op = "request"

\* execute_query returned in the last request; AppRes is its result.
AppReturned == Requested /\ result[1].raised = None

AppRes == result[1].value[1]

\* C14: the query passed to execute_query is the resolved query that
\* Memory.push returned and stored as the last history entry: the result
\* echoes that query.
C14_ExecutesResolved ==
    AppReturned =>
        /\ last(history) = resolved
        /\ AppRes.query_json = to_json(resolved[1])

\* C15: followup is true exactly when the normalized text contains a
\* follow-up phrase and the hint is non-empty; the hint is empty exactly when
\* the history is empty; a query processed on an empty history is not
\* flagged and is stored unmerged; a flagged query is merged onto the last
\* entry of a non-empty history.
C15_FollowupNeedsHistory ==
    [][Requested' =>
        /\ query'.followup <=> (_any_kw(_tok(raw_query'), FollowupSignals) /\ context_hint' # "")
        /\ context_hint' = "" <=> history = <<>>
        /\ history = <<>> => (~query'.followup /\ resolved' = Some(query') /\ history' = <<query'>>)
        /\ query'.followup => (history # <<>> /\ resolved' = Some(_merge(history[Len(history)], query')))]_vars

\* Witness of C15: the oldest entry is a query with a follow-up phrase that
\* was processed on an empty history, stored unflagged and unmerged; the
\* request after it is flagged and merged onto it.
C15_Witness ==
    /\ Requested /\ Len(history) = 2
    /\ _any_kw(_tok(history[1].raw_query), FollowupSignals)
    /\ ~history[1].followup
    /\ history[1] = parse_query(history[1].raw_query, "", _FUZZY)
    /\ query.followup
    /\ resolved = Some(_merge(history[1], query))
    /\ resolved[1] # query

\* C19: whenever execute_query returns success = false, generate_response
\* is not invoked on that result.
C19_ResponseSkippedOnError ==
    (AppReturned /\ ~AppRes.success) => response = None

\* C20: every result echoes the query's compare-set, and generate_response
\* completes and returns an InsightResponse for every successful result.
C20_CompareEchoed ==
    (AppReturned /\ AppRes.success) =>
        /\ "compare" \in DOMAIN AppRes
        /\ AppRes.compare = query.compare
        /\ response # None
        /\ response[1].raised = None

-----------------------------------------------------------------------------
(* Claims about the chart type, checked under SpecExec *)

ChartTypes == {"comparison", "line", "anomaly", "gauge", "donut", "bar"}

\* The tag the precedence gives for a result with the given compare-set.
ChartPrecedence(res, compare) ==
    IF Len(compare) >= 2 THEN "comparison"
    ELSE IF res.intent = "trend" THEN "line"
    ELSE IF res.intent = "anomaly" THEN "anomaly"
    ELSE IF res.intent = "single" /\ res.scalar_value # None /\ res.group_by = None THEN "gauge"
    ELSE IF res.metric = "count" /\ res.group_by \in {Some("device_type"), Some("transaction_type")} THEN "donut"
    ELSE "bar"

\* C21: for every result of execute_query, _select_chart_type returns
\* exactly one tag, the one the fixed precedence gives (compare-set, then
\* trend, anomaly, gauge, donut, bar).
C21_ChartTypePrecedence ==
    Returned =>
        /\ _select_chart_type_call(Res).raised = None
        /\ _select_chart_type_call(Res).value[1] \in ChartTypes
        /\ _select_chart_type_call(Res).value[1] = ChartPrecedence(Res, query.compare)

-----------------------------------------------------------------------------
(* Claims about top_n, checked under SpecParse *)

\* The text holds one of top / bottom / best / worst followed by a number.
HasTopN(text) ==
    \E i \in 1..Len(text) : \E k \in DOMAIN TopNKeywords : TopNMatchAt(text, i, TopNKeywords[k]) # ""

\* C22: top_n of every query returned by parse_query is a positive integer,
\* and it is 10 unless the text has top / bottom / best / worst followed by a
\* number.
C22_TopNPositive ==
    Parsed =>
        /\ query.top_n \in Nat /\ query.top_n >= 1
        /\ ~HasTopN(_tok(raw_query)) => query.top_n = 10

-----------------------------------------------------------------------------
(* Claims about the grouped branches, checked under SpecAnom *)

\* Row a comes strictly before row b in the requested direction.
Before(a, b) ==
    IF query.sort_ascending THEN ValLess(a.value, b.value) ELSE ValLess(b.value, a.value)

\* C23: for intent comparison or ranking with a resolved group-by, the
\* result table has at most top_n rows, ordered by value in the requested
\* direction, and they are the first top_n groups of the full per-group table
\* in that order.
C23_SortedTopN ==
    (Grouped /\ query.intent \in {"comparison", "ranking"}) =>
        /\ Len(ResTable) <= query.top_n
        /\ Len(ResTable) = Min(query.top_n, Len(FullTable))
        /\ \A i, j \in DOMAIN ResTable : i < j => ~Before(ResTable[j], ResTable[i])
        /\ \A i, j \in DOMAIN ResTable : i # j => ResTable[i].group # ResTable[j].group
        /\ Range(ResTable) \subseteq Range(FullTable)
        /\ \A r \in Range(FullTable) \ Range(ResTable) : \A x \in Range(ResTable) : ~Before(r, x)

\* Witness of C23: a descending comparison over six groups cut to three, the
\* first of which has a larger value than the second.
C23_Witness ==
    /\ Grouped /\ query.intent = "comparison" /\ ~query.sort_ascending
    /\ query.top_n = 3 /\ Len(FullTable) = 6 /\ Len(ResTable) = 3
    /\ ValLess(ResTable[2].value, ResTable[1].value)

\* The dimensions the parser treats as time-like (nlp_engine.py line 417).
TimeLike == {"month", "day_of_week", "hour_of_day"}

\* The bucketing column the spec gives a trend: the group-by when it is
\* time-like, else month, else day_of_week.
TrendColumn ==
    IF query.group_by # None /\ query.group_by[1] \in TimeLike /\ query.group_by[1] \in df.cols THEN query.group_by[1]
    ELSE IF "month" \in df.cols THEN "month"
    ELSE "day_of_week"

\* C24: for intent trend the result is bucketed by the group-by only when it
\* is time-like, else by month (day_of_week without a month column); the
\* buckets are in chronological order, all of them, whatever top_n.
C24_TrendBuckets ==
    (Grouped /\ query.intent = "trend") =>
        /\ Res.result_df[1].column = TrendColumn
        /\ \A i, j \in DOMAIN ResTable : i < j => KeyLess(TrendColumn, ResTable[i].group, ResTable[j].group)
        /\ {ResTable[i].group : i \in DOMAIN ResTable} = {df.rows[i][TrendColumn] : i \in DOMAIN df.rows}

\* The threshold of the path the query takes: 1.5 for the anomaly intent,
\* 2.0 on the comparison/ranking path.
PathThreshold == IF query.intent = "anomaly" THEN <<3, 2>> ELSE <<2, 1>>

\* The groups of the table whose |z| is at least the threshold.
Outliers(rows, dev, t) == {rows[i].group : i \in {k \in DOMAIN rows : IsOutlier(dev, k, t[1], t[2])}}

\* C25: on a table of at least 4 groups with non-zero standard deviation,
\* the anomalies are exactly the groups with |z| at least the path's
\* threshold, each with direction high for a positive z and low otherwise,
\* listed in descending order of |z|.
C25_ZScoreAnomalies ==
    (Grouped /\ query.intent \in {"comparison", "ranking", "anomaly"} /\ Len(ResTable) >= 4 /\ ~SameValue(ResTable)) =>
        /\ {a.group : a \in Range(Res.anomalies)} = Outliers(ResTable, Deviations(ResTable), PathThreshold)
        /\ Len(Res.anomalies) = Cardinality(Outliers(ResTable, Deviations(ResTable), PathThreshold))
        /\ \A a \in Range(Res.anomalies) : a.direction = IF a.dev > 0 THEN "high" ELSE "low"
        /\ \A i, j \in DOMAIN Res.anomalies : i < j => Abs(Res.anomalies[i].dev) >= Abs(Res.anomalies[j].dev)

-----------------------------------------------------------------------------
(* Claims about parsed and stored queries, checked under SpecApp *)

SingleWithGroup(q) == q.intent = "single" /\ q.group_by # None

\* _detect_intent found no intent keyword in the text.
DetectedSingle(text) == _detect_intent(_tok(text))[1] = "single"

NoSingleWithGroup ==
    /\ ~SingleWithGroup(query)
    /\ \A i \in DOMAIN history : ~SingleWithGroup(history[i])

C27_NoFilterOnComparedDimension ==
    \A i \in DOMAIN history :
        (Len(history[i].compare) >= 2 /\ history[i].group_by # None) =>
            history[i].group_by[1] \notin DOMAIN history[i].filters

-----------------------------------------------------------------------------
(* Claims about the row counts, checked under SpecExec *)

\* The rows the metric is computed over: those the filters and then the
\* time window leave.
ComputedOver == TimeWindowFilter(Filtered.value[1], query.time_window).value[1].rows

\* C28: filtered_rows of a successful result is the number of rows left
\* after the filters and the time window, the rows the metric is computed
\* over, and it never exceeds total_rows.
C28_FilteredRowsComputedOver ==
    (Returned /\ Res.success) =>
        /\ Res.filtered_rows = Len(ComputedOver)
        /\ Res.filtered_rows <= Res.total_rows

-----------------------------------------------------------------------------
(* Claims about stored entries, checked under SpecMem *)

\* The number of entries a step removed from the front of the history.
Evicted == Len(history) + 1 - Len(history')

\* C29: a push, merging or not, leaves every entry already stored
\* unchanged in every field; it removes at most the oldest entry, and only
\* from a full history; only clear removes the others.
C29_StoredEntriesUnchanged ==
    [][/\ Pushed' =>
            /\ Evicted \in {0, 1}
            /\ Evicted = 1 <=> Len(history) = _max
            /\ \A i \in (Evicted + 1)..Len(history) : history'[i - Evicted] = history[i]
       /\ history' # <<>> => Pushed']_vars

\* Witness of C29: after a push that merged a follow-up, the entry it was
\* merged onto is still the query that was pushed, with other filters than
\* the merged entry.
C29_Witness ==
    /\ Pushed /\ Len(history) = 2
    /\ query.followup /\ resolved # Some(query)
    /\ history[1] \in MemQueries /\ ~history[1].followup
    /\ history[2] = _merge(history[1], query)
    /\ history[2].filters # history[1].filters

-----------------------------------------------------------------------------
(* Claims about the hint, checked under SpecParse *)

\* Hints to compare a parse against: empty, a bare header, the context of a
\* one-entry history, and an arbitrary text.
HintSamples == Hints \cup {to_prompt_context(<<DefaultQuery>>, 3), "x"}

\* q and other agree on every field but the follow-up flag and the part of
\* the reasoning that reports it.
AgreeButFollowup(q, other) ==
    /\ [other EXCEPT !.followup = q.followup, !.confidence_reasoning = q.confidence_reasoning] = q
    /\ [other.confidence_reasoning EXCEPT !.followup = q.confidence_reasoning.followup] = q.confidence_reasoning

=============================================================================
